---- MODULE Spec2Model ----
(***************************************************************************)
(* Murdoku solver: the grid / placement model, the clue predicates, the    *)
(* domain reduction driven by the clues' __name__ strings, the             *)
(* backtracking search (solver/backtracking.py) and the brute-force        *)
(* search (solver/brute_force.py).                                         *)
(*                                                                         *)
(* Rows and columns are 0-based as in the source; a Python list is a TLA+  *)
(* sequence, so list index i is sequence index i + 1.                      *)
(***************************************************************************)
EXTENDS Integers, Sequences, FiniteSets, TLC

VARIABLES
    puzzle,      \* the Puzzle handed to both solvers (read-only)
    pc,          \* "bt_new" | "bt" | "bf_new" | "bf" | "done"
    bt,          \* the BacktrackingSolver's fields set by __init__
    bf,          \* the brute-force Solver's fields set by __init__
    ri,          \* number of row orders of permutations(people) consumed
    col_perm,    \* BacktrackingSolver.solve's col_perm list (mutated in place)
    found,       \* BacktrackingSolver.solve's found list
    btOutcome,   \* how BacktrackingSolver.solve ended
    bfFound,     \* Solver.solve's found list
    bfOutcome,   \* how Solver.solve ended
    data,        \* the raw dict handed to parse_puzzle, when one is
    loaded,      \* how parse_puzzle ended
    callArgs,    \* the arguments of a direct call to Grid.get_cell
    callResult   \* how that call ended

vars == <<puzzle, pc, bt, bf, ri, col_perm, found, btOutcome, bfFound, bfOutcome,
          data, loaded, callArgs, callResult>>

\* the variables of the loader and of the direct call
ioVars == <<data, loaded, callArgs, callResult>>

(***************************************************************************)
(* Bounds of the explored inputs.                                          *)
(***************************************************************************)
MaxPeople == 3
MaxRows == 3
MaxCols == 3
MaxClues == 1

(***************************************************************************)
(* models/cell.py: ObjectType and its static "blocks" flag.                *)
(***************************************************************************)
ObjectType == {"WINDOW", "BED", "CARPET", "PLANT", "TABLE", "CHAIR", "TV",
               "BOOKSHELF", "CASH_REGISTER", "RUBBISH", "ROCK", "COMPUTER",
               "GIFT", "BOX", "VOID"}

\* ObjectType.<member>.blocks
blocks(o) == o \in {"PLANT", "TABLE", "TV", "BOOKSHELF", "RUBBISH", "ROCK",
                    "COMPUTER", "BOX", "VOID"}

\* ObjectType.<member>.value
ObjValue(o) ==
    CASE o = "WINDOW" -> "window"
      [] o = "BED" -> "bed"
      [] o = "CARPET" -> "carpet"
      [] o = "PLANT" -> "plant"
      [] o = "TABLE" -> "table"
      [] o = "CHAIR" -> "chair"
      [] o = "TV" -> "tv"
      [] o = "BOOKSHELF" -> "bookshelf"
      [] o = "CASH_REGISTER" -> "cash_register"
      [] o = "RUBBISH" -> "rubbish"
      [] o = "ROCK" -> "rock"
      [] o = "COMPUTER" -> "computer"
      [] o = "GIFT" -> "gift"
      [] o = "BOX" -> "box"
      [] o = "VOID" -> "__void__"

\* str.lower() on the member names that appear in clue names
Lower(s) ==
    CASE s = "WINDOW" -> "window"
      [] s = "BED" -> "bed"
      [] s = "CARPET" -> "carpet"
      [] s = "PLANT" -> "plant"
      [] s = "TABLE" -> "table"
      [] s = "CHAIR" -> "chair"
      [] s = "TV" -> "tv"
      [] s = "BOOKSHELF" -> "bookshelf"
      [] s = "CASH_REGISTER" -> "cash_register"
      [] s = "RUBBISH" -> "rubbish"
      [] s = "ROCK" -> "rock"
      [] s = "COMPUTER" -> "computer"
      [] s = "GIFT" -> "gift"
      [] s = "BOX" -> "box"
      [] s = "VOID" -> "void"
      [] OTHER -> s

None == "None"

\* _OBJ_MAP.get(key): the map is keyed by ObjectType value; a miss is None
OBJ_MAP_get(key) ==
    IF \E o \in ObjectType : ObjValue(o) = key
    THEN CHOOSE o \in ObjectType : ObjValue(o) = key
    ELSE None

(***************************************************************************)
(* models/cell.py, models/grid.py: a grid is n_rows x n_cols cells, each   *)
(* with a room id and a set of objects.                                    *)
(***************************************************************************)
Rows(grid) == 0 .. (grid.n_rows - 1)
Cols(grid) == 0 .. (grid.n_cols - 1)

InBounds(grid, r, c) == r \in Rows(grid) /\ c \in Cols(grid)

\* Cell.is_blocked of the cell at (r, c)
is_blocked(grid, r, c) == \E o \in grid.objs[<<r, c>>] : blocks(o)

\* Cell.has_object; obj may be None (a failed _OBJ_MAP lookup)
has_object(grid, r, c, obj) == obj \in grid.objs[<<r, c>>]

room_id(grid, r, c) == grid.room[<<r, c>>]

\* Grid.all_cells(), as the set of positions
all_cells(grid) == Rows(grid) \X Cols(grid)

\* every cell of the grid, blocked or not
valid_cells_WithBlocked(grid) == all_cells(grid)

\* Grid.valid_cells()
valid_cells(grid) == {rc \in all_cells(grid) : ~is_blocked(grid, rc[1], rc[2])}

\* Grid.cells_with_object(obj)
cells_with_object(grid, obj) ==
    {rc \in all_cells(grid) : has_object(grid, rc[1], rc[2], obj)}

\* the four (dr, dc) of Grid.neighbors and of the wall tests
Directions == {<<-1, 0>>, <<1, 0>>, <<0, -1>>, <<0, 1>>}

\* the in-bounds cells around (row, col), the diagonal ones included
neighbors_WithDiagonals(grid, r, c) ==
    {<<r + dr, c + dc>> : dr \in {-1, 0, 1}, dc \in {-1, 0, 1}}
        \cap (all_cells(grid) \ {<<r, c>>})

\* Grid.neighbors(row, col): the in-bounds orthogonal neighbours
neighbors(grid, r, c) ==
    {<<r + d[1], c + d[2]>> : d \in Directions} \cap all_cells(grid)

\* a wall only where the grid ends, whatever the room
is_wall_BoundsOnly(r, c, grid, room) ==
    r < 0 \/ r >= grid.n_rows \/ c < 0 \/ c >= grid.n_cols

\* clues/base.py is_wall
is_wall(r, c, grid, room) ==
    IF r < 0 \/ r >= grid.n_rows \/ c < 0 \/ c >= grid.n_cols
    THEN TRUE
    ELSE room_id(grid, r, c) # room

\* the four pairs with the two pairs of opposite directions added
SEQUENTIAL_DIR_PAIRS_WithOpposite ==
    { << <<-1, 0>>, <<0, 1>> >>,
      << <<0, 1>>, <<1, 0>> >>,
      << <<1, 0>>, <<0, -1>> >>,
      << <<0, -1>>, <<-1, 0>> >>,
      << <<-1, 0>>, <<1, 0>> >>,
      << <<0, -1>>, <<0, 1>> >> }

\* clues/base.py _SEQUENTIAL_DIR_PAIRS
SEQUENTIAL_DIR_PAIRS ==
    { << <<-1, 0>>, <<0, 1>> >>,
      << <<0, 1>>, <<1, 0>> >>,
      << <<1, 0>>, <<0, -1>> >>,
      << <<0, -1>>, <<-1, 0>> >> }

(***************************************************************************)
(* models/state.py: GameState.                                             *)
(***************************************************************************)
GameState(row_order, cp, grid) ==
    [row_order |-> row_order, col_perm |-> cp, grid |-> grid]

\* index i (1-based) of person in row_order; people are unique
IndexOf(seq, x) == CHOOSE i \in 1 .. Len(seq) : seq[i] = x

\* GameState.position(person) = (row, col)
position(state, person) ==
    LET i == IndexOf(state.row_order, person)
    IN  <<i - 1, state.col_perm[i]>>

\* GameState.room_of(person)
room_of(state, person) ==
    LET rc == position(state, person)
    IN  room_id(state.grid, rc[1], rc[2])

\* GameState.people_in_room(room_id): a list, in row order
people_in_room(state, room) ==
    SelectSeq(state.row_order, LAMBDA p : room_of(state, p) = room)

\* GameState.people_on_object(obj): a list, in row order
people_on_object(state, obj) ==
    SelectSeq(state.row_order,
              LAMBDA p : LET rc == position(state, p)
                         IN  has_object(state.grid, rc[1], rc[2], obj))

(***************************************************************************)
(* clues/*.py: a clue is built by a factory from its arguments; the model  *)
(* keeps the factory's name and arguments and evaluates the closure the    *)
(* factory returns.  Unused arguments hold "-" (0 for col).                *)
(***************************************************************************)
Clue(kind, p, t, room, obj, col, inv) ==
    [kind |-> kind, p |-> p, t |-> t, room |-> room, obj |-> obj,
     col |-> col, inv |-> inv]

\* the result returned as it is, whatever invert says
Inverted_Ignored(result, invert) == result

\* "return (not result) if invert else result"
Inverted(result, invert) == IF invert THEN ~result ELSE result

\* clues/in_room.py
in_room(state, person, room, invert) ==
    Inverted(room_of(state, person) = room, invert)

\* clues/on_object.py
on_object(state, person, obj, invert) ==
    LET rc == position(state, person)
    IN  Inverted(has_object(state.grid, rc[1], rc[2], obj), invert)

\* clues/only_on_object.py
only_on_object(state, person, obj) ==
    people_on_object(state, obj) = <<person>>

\* clues/only_one_person_on.py
only_one_person_on(state, obj) ==
    Len(people_on_object(state, obj)) <= 1

\* clues/next_to_object.py
next_to_object(state, person, obj, invert) ==
    LET rc == position(state, person)
        result == \E n \in neighbors(state.grid, rc[1], rc[2]) :
                      /\ has_object(state.grid, n[1], n[2], obj)
                      /\ room_id(state.grid, n[1], n[2]) = room_of(state, person)
    IN  Inverted(result, invert)

\* clues/in_corner.py
in_corner(state, person) ==
    LET rc == position(state, person)
        room == room_of(state, person)
    IN  \E pr \in SEQUENTIAL_DIR_PAIRS :
            /\ is_wall(pr[1][1] + rc[1], pr[1][2] + rc[2], state.grid, room)
            /\ is_wall(pr[2][1] + rc[1], pr[2][2] + rc[2], state.grid, room)

\* clues/not_next_to_wall.py
not_next_to_wall(state, person) ==
    LET rc == position(state, person)
        room == room_of(state, person)
    IN  ~ \E d \in Directions :
              is_wall(rc[1] + d[1], rc[2] + d[2], state.grid, room)

\* clues/below_person.py
below_person(state, person, target) ==
    position(state, person)[1] > position(state, target)[1]

\* clues/above_person.py
above_person(state, person, target) ==
    position(state, person)[1] < position(state, target)[1]

\* clues/at_column.py
at_column(state, person, col) ==
    position(state, person)[2] = col

\* clues/alone_with_murderer.py
alone_with_murderer(state, victim) ==
    Len(people_in_room(state, room_of(state, victim))) = 2

\* clues/with_person.py
with_person(state, person, target, invert) ==
    Inverted(room_of(state, person) = room_of(state, target), invert)

\* clues/alone_in_room.py
alone_in_room(state, person, room) ==
    IF room_of(state, person) # room
    THEN FALSE
    ELSE people_in_room(state, room) = <<person>>

\* set(list)
SeqToSet(s) == {s[i] : i \in 1 .. Len(s)}

\* clues/only_with_person.py
only_with_person(state, person, target) ==
    SeqToSet(people_in_room(state, room_of(state, person))) = {person, target}

\* a gate that lets every cell through
RoomGate_Open(in_same, different_room) == TRUE

\* the room gate shared by same_column_as_object and left_of
RoomGate(in_same, different_room) ==
    \/ (different_room /\ ~in_same)
    \/ (~different_room /\ in_same)

\* clues/same_column_as_object.py
same_column_as_object(state, person, obj, different_room) ==
    LET p_col == position(state, person)[2]
        p_room == room_of(state, person)
    IN  \E cell \in cells_with_object(state.grid, obj) :
            /\ cell[2] = p_col
            /\ RoomGate(room_id(state.grid, cell[1], cell[2]) = p_room,
                        different_room)

\* clues/left_of.py
left_of(state, person, obj, different_room) ==
    LET p_col == position(state, person)[2]
        p_room == room_of(state, person)
    IN  \E cell \in cells_with_object(state.grid, obj) :
            /\ p_col < cell[2]
            /\ RoomGate(room_id(state.grid, cell[1], cell[2]) = p_room,
                        different_room)

\* clue(state): the closure each factory returns
EvalClue(clue, state) ==
    CASE clue.kind = "in_room" -> in_room(state, clue.p, clue.room, clue.inv)
      [] clue.kind = "on_object" -> on_object(state, clue.p, clue.obj, clue.inv)
      [] clue.kind = "only_on_object" -> only_on_object(state, clue.p, clue.obj)
      [] clue.kind = "only_one_person_on" -> only_one_person_on(state, clue.obj)
      [] clue.kind = "next_to_object" ->
             next_to_object(state, clue.p, clue.obj, clue.inv)
      [] clue.kind = "in_corner" -> in_corner(state, clue.p)
      [] clue.kind = "not_next_to_wall" -> not_next_to_wall(state, clue.p)
      [] clue.kind = "below_person" -> below_person(state, clue.p, clue.t)
      [] clue.kind = "above_person" -> above_person(state, clue.p, clue.t)
      [] clue.kind = "at_column" -> at_column(state, clue.p, clue.col)
      [] clue.kind = "alone_with_murderer" -> alone_with_murderer(state, clue.p)
      [] clue.kind = "with_person" -> with_person(state, clue.p, clue.t, clue.inv)
      [] clue.kind = "alone_in_room" -> alone_in_room(state, clue.p, clue.room)
      [] clue.kind = "only_with_person" -> only_with_person(state, clue.p, clue.t)
      [] clue.kind = "same_column_as_object" ->
             same_column_as_object(state, clue.p, clue.obj, clue.inv)
      [] clue.kind = "left_of" -> left_of(state, clue.p, clue.obj, clue.inv)

(***************************************************************************)
(* clue.__name__: the string each factory stores on its closure.  A name   *)
(* is kept as its tag (the text before the parenthesis) and its arguments; *)
(* an argument is a repr'd string (with the quote character repr picks),   *)
(* a bare word (an ObjectType member name, a room-gate tag) or a number.   *)
(***************************************************************************)
\* names that hold an apostrophe: repr() writes them in double quotes
ApostropheNames == {"O'N"}

\* {s!r} for a str
Repr(s) == [shape |-> "str",
            quote |-> IF s \in ApostropheNames THEN "dq" ELSE "sq",
            text |-> s, num |-> 0]

\* {obj.name}, or a literal tag word
Word(w) == [shape |-> "word", quote |-> "-", text |-> w, num |-> 0]

\* {col} for an int
Num(n) == [shape |-> "int", quote |-> "-", text |-> "-", num |-> n]

Name(tag, args) == [tag |-> tag, args |-> args]

ClueName(clue) ==
    CASE clue.kind = "in_room" ->
             Name(IF clue.inv THEN "not_in_room" ELSE "in_room",
                  <<Repr(clue.p), Repr(clue.room)>>)
      [] clue.kind = "on_object" ->
             Name(IF clue.inv THEN "not_on_object" ELSE "on_object",
                  <<Repr(clue.p), Word(clue.obj)>>)
      [] clue.kind = "only_on_object" ->
             Name("only_on_object", <<Repr(clue.p), Word(clue.obj)>>)
      [] clue.kind = "only_one_person_on" ->
             Name("only_one_person_on", <<Word(clue.obj)>>)
      [] clue.kind = "next_to_object" ->
             Name(IF clue.inv THEN "not_next_to_object" ELSE "next_to_object",
                  <<Repr(clue.p), Word(clue.obj)>>)
      [] clue.kind = "in_corner" -> Name("in_corner", <<Repr(clue.p)>>)
      [] clue.kind = "not_next_to_wall" ->
             Name("not_next_to_wall", <<Repr(clue.p)>>)
      [] clue.kind = "below_person" ->
             Name("below_person", <<Repr(clue.p), Repr(clue.t)>>)
      [] clue.kind = "above_person" ->
             Name("above_person", <<Repr(clue.p), Repr(clue.t)>>)
      [] clue.kind = "at_column" ->
             Name("at_column", <<Repr(clue.p), Num(clue.col)>>)
      [] clue.kind = "alone_with_murderer" ->
             Name("alone_with_murderer", <<Repr(clue.p)>>)
      [] clue.kind = "with_person" ->
             Name(IF clue.inv THEN "not_with_person" ELSE "with_person",
                  <<Repr(clue.p), Repr(clue.t)>>)
      [] clue.kind = "alone_in_room" ->
             Name("alone_in_room", <<Repr(clue.p), Repr(clue.room)>>)
      [] clue.kind = "only_with_person" ->
             Name("with_person", <<Repr(clue.p), Repr(clue.t)>>)
      [] clue.kind = "same_column_as_object" ->
             Name("same_column_as_object",
                  <<Repr(clue.p), Word(clue.obj),
                    Word(IF clue.inv THEN "diff_room" ELSE "same_room")>>)
      [] clue.kind = "left_of" ->
             Name("left_of",
                  <<Repr(clue.p), Word(clue.obj),
                    Word(IF clue.inv THEN "diff_room" ELSE "same_room")>>)

\* One regex group against one argument of a name:
\*   "q" is '(.+?)'  (a single-quoted string),
\*   "w" is (\w+)    (a bare word),
\*   "d" is (\d+)    (a non-negative number).
GroupMatches(g, arg) ==
    CASE g = "q" -> arg.shape = "str" /\ arg.quote = "sq"
      [] g = "w" -> arg.shape = "word"
      [] g = "d" -> arg.shape = "int" /\ arg.num >= 0


\* the tags that contain another tag followed by "(": what re.search would
\* find where re.match does not
TagInside == { <<"in_room", "not_in_room">>,
               <<"on_object", "not_on_object">>,
               <<"on_object", "only_on_object">>,
               <<"next_to_object", "not_next_to_object">>,
               <<"with_person", "not_with_person">> }

\* re.search in place of re.match: the pattern may start inside the name
ReSearch(tag, groups, name) ==
    /\ (name.tag = tag \/ <<tag, name.tag>> \in TagInside)
    /\ Len(name.args) = Len(groups)
    /\ \A i \in 1 .. Len(groups) : GroupMatches(groups[i], name.args[i])

\* re.match(pattern, name): the pattern is tag\(group, group\), anchored at
\* the start of the name
ReMatch(tag, groups, name) ==
    /\ name.tag = tag
    /\ Len(name.args) = Len(groups)
    /\ \A i \in 1 .. Len(groups) : GroupMatches(groups[i], name.args[i])

\* m.group(i) as text / int(m.group(i))
GroupText(name, i) == name.args[i].text
GroupInt(name, i) == name.args[i].num

(***************************************************************************)
(* Python helpers: itertools.permutations, sorted iteration of a small     *)
(* frozenset of ints, list concatenation.                                  *)
(***************************************************************************)
RECURSIVE Flatten(_)
Flatten(ss) == IF ss = <<>> THEN <<>> ELSE Head(ss) \o Flatten(Tail(ss))

\* the list without its i-th element
Without(s, i) == SubSeq(s, 1, i - 1) \o SubSeq(s, i + 1, Len(s))

\* list(itertools.permutations(s)): lexicographic in the positions of s
RECURSIVE permutations(_)
permutations(s) ==
    IF s = <<>>
    THEN << <<>> >>
    ELSE Flatten([i \in 1 .. Len(s) |->
                    LET rest == permutations(Without(s, i))
                    IN  [k \in 1 .. Len(rest) |-> <<s[i]>> \o rest[k]]])

\* range(n) as a list
range(n) == [i \in 1 .. n |-> i - 1]

\* iteration order of a frozenset of small non-negative ints: ascending
RECURSIVE Ascending(_)
Ascending(S) ==
    IF S = {}
    THEN <<>>
    ELSE LET m == CHOOSE x \in S : \A y \in S : x <= y
         IN  <<m>> \o Ascending(S \ {m})

(***************************************************************************)
(* solver/backtracking.py: construction of BacktrackingSolver.             *)
(***************************************************************************)
\* the names of the clues, in clue-list order
ClueNames(clues) == [i \in 1 .. Len(clues) |-> ClueName(clues[i])]

\* _parse_constraints: (above, below, col_fixed); col_fixed keeps the last
\* at_column of each person
parse_constraints(clues) ==
    LET names == ClueNames(clues)
        isAbove(i) == ReMatch("above_person", <<"q", "q">>, names[i])
        isBelow(i) == ~isAbove(i) /\ ReMatch("below_person", <<"q", "q">>, names[i])
        isCol(i) == /\ ~isAbove(i)
                    /\ ~isBelow(i)
                    /\ ReMatch("at_column", <<"q", "d">>, names[i])
        idx == 1 .. Len(clues)
        colIdx == {i \in idx : isCol(i)}
        colPeople == {GroupText(names[i], 1) : i \in colIdx}
        lastOf(person) ==
            CHOOSE i \in colIdx :
                /\ GroupText(names[i], 1) = person
                /\ \A j \in colIdx :
                       GroupText(names[j], 1) = person => j <= i
    IN  [above |-> {<<GroupText(names[i], 1), GroupText(names[i], 2)>> :
                       i \in {j \in idx : isAbove(j)}},
         below |-> {<<GroupText(names[i], 1), GroupText(names[i], 2)>> :
                       i \in {j \in idx : isBelow(j)}},
         col_fixed |-> [person \in colPeople |->
                           GroupInt(names[lastOf(person)], 2)]]

\* _is_corner(cell, grid)
is_corner(cell, grid) ==
    LET room == room_id(grid, cell[1], cell[2])
    IN  \E pr \in SEQUENTIAL_DIR_PAIRS :
            /\ is_wall(cell[1] + pr[1][1], cell[2] + pr[1][2], grid, room)
            /\ is_wall(cell[1] + pr[2][1], cell[2] + pr[2][2], grid, room)

\* _is_interior(cell, grid)
is_interior(cell, grid) ==
    LET room == room_id(grid, cell[1], cell[2])
    IN  ~ \E d \in Directions :
              is_wall(cell[1] + d[1], cell[2] + d[2], grid, room)


\* the neighbour test without the same-room condition
has_neighbor_AnyRoom(cell, obj, grid) ==
    \E n \in neighbors(grid, cell[1], cell[2]) :
        has_object(grid, n[1], n[2], obj)

\* _has_neighbor_with_object(cell, obj, grid)
has_neighbor_with_object(cell, obj, grid) ==
    \E n \in neighbors(grid, cell[1], cell[2]) :
        /\ room_id(grid, n[1], n[2]) = room_id(grid, cell[1], cell[2])
        /\ has_object(grid, n[1], n[2], obj)

\* the patterns list of _apply_domain_filter, in its order
FilterPatterns ==
    << [tag |-> "at_column", groups |-> <<"q", "d">>],
       [tag |-> "in_room", groups |-> <<"q", "q">>],
       [tag |-> "on_object", groups |-> <<"q", "w">>],
       [tag |-> "not_on_object", groups |-> <<"q", "w">>],
       [tag |-> "only_on_object", groups |-> <<"q", "w">>],
       [tag |-> "next_to_object", groups |-> <<"q", "w">>],
       [tag |-> "not_next_to_object", groups |-> <<"q", "w">>],
       [tag |-> "in_corner", groups |-> <<"q">>],
       [tag |-> "not_next_to_wall", groups |-> <<"q">>],
       [tag |-> "alone_in_room", groups |-> <<"q", "q">>] >>

\* the filter lambda of pattern k applied to one cell, m being the match
FilterKeeps(k, name, cell, grid) ==
    LET obj == OBJ_MAP_get(Lower(GroupText(name, 2)))
    IN  CASE k = 1 -> cell[2] = GroupInt(name, 2)
          [] k = 2 -> room_id(grid, cell[1], cell[2]) = GroupText(name, 2)
          [] k = 3 -> has_object(grid, cell[1], cell[2], obj)
          [] k = 4 -> ~has_object(grid, cell[1], cell[2], obj)
          [] k = 5 -> has_object(grid, cell[1], cell[2], obj)
          [] k = 6 -> has_neighbor_with_object(cell, obj, grid)
          [] k = 7 -> ~has_neighbor_with_object(cell, obj, grid)
          [] k = 8 -> is_corner(cell, grid)
          [] k = 9 -> is_interior(cell, grid)
          [] k = 10 -> room_id(grid, cell[1], cell[2]) = GroupText(name, 2)

\* _apply_domain_filter(name, candidates, grid): the first matching pattern
\* narrows candidates[person] when person is a key; nothing else changes
apply_domain_filter(name, candidates, grid) ==
    LET hits == {k \in 1 .. Len(FilterPatterns) :
                    ReMatch(FilterPatterns[k].tag, FilterPatterns[k].groups, name)}
    IN  IF hits = {}
        THEN candidates
        ELSE LET k == CHOOSE x \in hits : \A y \in hits : x <= y
                 person == GroupText(name, 1)
             IN  IF person \in DOMAIN candidates
                 THEN [candidates EXCEPT ![person] =
                          {cell \in candidates[person] :
                              FilterKeeps(k, name, cell, grid)}]
                 ELSE candidates

\* the "for clue in clues" loop of _build_candidate_cells, from clue i on
RECURSIVE FilterLoop(_, _, _, _)
FilterLoop(clues, i, candidates, grid) ==
    IF i > Len(clues)
    THEN candidates
    ELSE FilterLoop(clues, i + 1,
                    apply_domain_filter(ClueName(clues[i]), candidates, grid),
                    grid)

\* _build_candidate_cells(clues, valid_cells)
build_candidate_cells(pz) ==
    FilterLoop(pz.clues, 1,
               [p \in SeqToSet(pz.people) |-> valid_cells(pz.grid)],
               pz.grid)

\* _build_candidate_cols(candidates, n_rows): person -> row -> columns
build_candidate_cols(candidates, n_rows) ==
    [person \in DOMAIN candidates |->
        [r \in 0 .. (n_rows - 1) |->
            {cell[2] : cell \in {x \in candidates[person] : x[1] = r}}]]

\* self._candidate_cols
candidate_cols(pz) ==
    build_candidate_cols(build_candidate_cells(pz), pz.grid.n_rows)

\* self._candidate_cols[person].get(row_idx, frozenset())
CandidateColsGet(cc, person, row_idx) ==
    IF row_idx \in DOMAIN cc[person] THEN cc[person][row_idx] ELSE {}

\* the test on the above pairs alone
row_order_valid_AboveOnly(cons, row_order) ==
    LET ro_idx(p) == IndexOf(row_order, p) - 1
    IN  ~ \E pt \in cons.above : ro_idx(pt[1]) >= ro_idx(pt[2])

\* _row_order_valid(ro_idx), ro_idx being the row of each person
row_order_valid(cons, row_order) ==
    LET ro_idx(p) == IndexOf(row_order, p) - 1
    IN  IF \E pt \in cons.above : ro_idx(pt[1]) >= ro_idx(pt[2])
        THEN FALSE
        ELSE IF \E pt \in cons.below : ro_idx(pt[1]) <= ro_idx(pt[2])
             THEN FALSE
             ELSE TRUE

(***************************************************************************)
(* Leaf evaluation and finalisation, shared in shape by both solvers.      *)
(***************************************************************************)
Solution(positions, murderer) ==
    [positions |-> positions, murderer |-> murderer]

\* all(clue(state) for clue in self.puzzle.clues)
AllClues(pz, state) ==
    \A i \in 1 .. Len(pz.clues) : EvalClue(pz.clues[i], state)


\* the murderer taken as the first room member, whoever it is
SolutionOf_FirstMember(pz, state) ==
    LET victim_room == room_of(state, pz.victim)
        room_members == people_in_room(state, victim_room)
    IN  IF Len(room_members) # 2
        THEN <<>>
        ELSE << Solution([p \in SeqToSet(pz.people) |-> position(state, p)],
                         Head(room_members)) >>

\* the murder rule rejecting only a victim with no company
SolutionOf_AtLeastTwo(pz, state) ==
    LET victim_room == room_of(state, pz.victim)
        room_members == people_in_room(state, victim_room)
        others == SelectSeq(room_members, LAMBDA p : p # pz.victim)
    IN  IF Len(room_members) < 2
        THEN <<>>
        ELSE << Solution([p \in SeqToSet(pz.people) |-> position(state, p)],
                         Head(others)) >>

\* the murder rule and the Solution built from a state that passed the clues
SolutionOf(pz, state) ==
    LET victim_room == room_of(state, pz.victim)
        room_members == people_in_room(state, victim_room)
        others == SelectSeq(room_members, LAMBDA p : p # pz.victim)
    IN  IF Len(room_members) # 2
        THEN <<>>
        ELSE << Solution([p \in SeqToSet(pz.people) |-> position(state, p)],
                         Head(others)) >>


\* the leaf evaluation without the clue check
try_solution_SkipsClues(pz, row_order, cp, fnd) ==
    fnd \o SolutionOf(pz, GameState(row_order, cp, pz.grid))

\* BacktrackingSolver._try_solution: found, with the Solution appended when
\* the placement passes
try_solution(pz, row_order, cp, fnd) ==
    LET state == GameState(row_order, cp, pz.grid)
    IN  IF ~AllClues(pz, state)
        THEN fnd
        ELSE fnd \o SolutionOf(pz, state)

\* how solve() ends
Outcome(kind, ret, solutions) ==
    [kind |-> kind, ret |-> ret, solutions |-> solutions]

Running == Outcome("running", <<>>, <<>>)


\* the ambiguity test off by one: len(found) > 2
finalize_OffByOne(fnd) ==
    IF Len(fnd) = 0
    THEN Outcome("NoSolutionError", <<>>, <<>>)
    ELSE IF Len(fnd) > 2
         THEN Outcome("MultipleSolutionsError", <<>>,
                      [i \in 1 .. Len(fnd) |->
                          [murderer |-> fnd[i].murderer,
                           positions |-> fnd[i].positions]])
         ELSE Outcome("Solution", <<fnd[1]>>, <<>>)

\* the error built from found[1:]
finalize_DropsFirst(fnd) ==
    IF Len(fnd) = 0
    THEN Outcome("NoSolutionError", <<>>, <<>>)
    ELSE IF Len(fnd) > 1
         THEN Outcome("MultipleSolutionsError", <<>>,
                      [i \in 1 .. Len(fnd) - 1 |->
                          [murderer |-> fnd[i + 1].murderer,
                           positions |-> fnd[i + 1].positions]])
         ELSE Outcome("Solution", <<fnd[1]>>, <<>>)

\* _finalize(found) of both solvers
finalize(fnd) ==
    IF Len(fnd) = 0
    THEN Outcome("NoSolutionError", <<>>, <<>>)
    ELSE IF Len(fnd) > 1
         THEN Outcome("MultipleSolutionsError", <<>>,
                      [i \in 1 .. Len(fnd) |->
                          [murderer |-> fnd[i].murderer,
                           positions |-> fnd[i].positions]])
         ELSE Outcome("Solution", <<fnd[1]>>, <<>>)

(***************************************************************************)
(* solver/backtracking.py: backtrack(row_idx, used_cols) inside solve().   *)
(* st = [found, col_perm] is the state the closure mutates in place.       *)
(***************************************************************************)
RECURSIVE backtrack(_, _, _, _, _, _)
RECURSIVE ForCols(_, _, _, _, _, _, _)

\* backtrack without "- used_cols"
backtrack_IgnoresUsed(pz, cc, row_order, row_idx, used_cols, st) ==
    IF row_idx = Len(pz.people)
    THEN [st EXCEPT !.found = try_solution(pz, row_order, st.col_perm, st.found)]
    ELSE LET person == row_order[row_idx + 1]
             allowed == CandidateColsGet(cc, person, row_idx)
         IN  ForCols(pz, cc, row_order, row_idx, used_cols, Ascending(allowed), st)

backtrack(pz, cc, row_order, row_idx, used_cols, st) ==
    IF row_idx = Len(pz.people)
    THEN [st EXCEPT !.found = try_solution(pz, row_order, st.col_perm, st.found)]
    ELSE LET person == row_order[row_idx + 1]
             allowed == CandidateColsGet(cc, person, row_idx) \ used_cols
         IN  ForCols(pz, cc, row_order, row_idx, used_cols, Ascending(allowed), st)

\* "for col in allowed": assign, recurse, go on with the next column
ForCols(pz, cc, row_order, row_idx, used_cols, todo, st) ==
    IF todo = <<>>
    THEN st
    ELSE LET col == Head(todo)
             assigned == [st EXCEPT !.col_perm[row_idx + 1] = col]
             after == backtrack(pz, cc, row_order, row_idx + 1,
                                used_cols \cup {col}, assigned)
         IN  ForCols(pz, cc, row_order, row_idx, used_cols, Tail(todo), after)

(***************************************************************************)
(* solver/brute_force.py.                                                  *)
(***************************************************************************)
\* the "for row_idx, person in enumerate(row_order)" loop of _col_perms:
\* fixed maps row -> column; conflict is the early "return"
RECURSIVE FixedLoop(_, _, _, _)
FixedLoop(col_fixed, row_order, i, fixed) ==
    IF i > Len(row_order)
    THEN [conflict |-> FALSE, fixed |-> fixed]
    ELSE IF row_order[i] \in DOMAIN col_fixed
         THEN LET col == col_fixed[row_order[i]]
              IN  IF \E r \in DOMAIN fixed : fixed[r] = col
                  THEN [conflict |-> TRUE, fixed |-> fixed]
                  ELSE FixedLoop(col_fixed, row_order, i + 1,
                                 (i - 1) :> col @@ fixed)
         ELSE FixedLoop(col_fixed, row_order, i + 1, fixed)

\* Solver._col_perms(row_order), as the list of what it yields
col_perms(col_fixed, row_order) ==
    LET n == Len(row_order)
    IN  IF DOMAIN col_fixed = {}
        THEN permutations(range(n))
        ELSE LET fl == FixedLoop(col_fixed, row_order, 1, <<>>)
                 fixed == fl.fixed
                 fixed_cols == {fixed[r] : r \in DOMAIN fixed}
                 free_rows == SelectSeq(range(n), LAMBDA r : r \notin DOMAIN fixed)
                 free_cols == SelectSeq(range(n), LAMBDA c : c \notin fixed_cols)
                 perms == permutations(free_cols)
                 col_p(perm) ==
                     [row1 \in 1 .. n |->
                         IF (row1 - 1) \in DOMAIN fixed
                         THEN fixed[row1 - 1]
                         ELSE perm[IndexOf(free_rows, row1 - 1)]]
             IN  IF fl.conflict
                 THEN <<>>
                 ELSE [k \in 1 .. Len(perms) |-> col_p(perms[k])]

\* Solver._blocked_placement(col_perm): any() looks at the rows in order and
\* stops at the first blocked cell; get_cell raises IndexError outside the
\* grid.  "blocked" | "clear" | "IndexError"
RECURSIVE blocked_placement(_, _, _)
blocked_placement(grid, cp, i) ==
    IF i > Len(cp)
    THEN "clear"
    ELSE IF ~InBounds(grid, i - 1, cp[i])
         THEN "IndexError"
         ELSE IF is_blocked(grid, i - 1, cp[i])
              THEN "blocked"
              ELSE blocked_placement(grid, cp, i + 1)

\* Solver._extract_solution(state): a list with the Solution, or empty (None)
extract_solution(pz, state) ==
    IF ~AllClues(pz, state)
    THEN <<>>
    ELSE SolutionOf(pz, state)

\* the "for col_perm in self._col_perms(row_order)" loop of Solver.solve;
\* st = [found, raised]
RECURSIVE ColPermLoop(_, _, _, _, _)
ColPermLoop(pz, row_order, perms, k, st) ==
    IF k > Len(perms)
    THEN st
    ELSE LET b == blocked_placement(pz.grid, perms[k], 1)
         IN  IF b = "IndexError"
             THEN [st EXCEPT !.raised = TRUE]
             ELSE IF b = "blocked"
                  THEN ColPermLoop(pz, row_order, perms, k + 1, st)
                  ELSE ColPermLoop(pz, row_order, perms, k + 1,
                           [st EXCEPT !.found =
                               @ \o extract_solution(pz,
                                       GameState(row_order, perms[k], pz.grid))])

(***************************************************************************)
(* The puzzles explored.  A grid is built the way loading/parser.py's      *)
(* _build_grid builds one: every listed cell carries its room and objects, *)
(* and an unlisted position becomes a void cell (room "__void__", object   *)
(* VOID).                                                                  *)
(***************************************************************************)
\* the room of a listed cell under each layout
LayoutRoom(layout, r, c) ==
    CASE layout = "one" -> "r1"
      [] layout = "vsplit" -> IF c = 0 THEN "r1" ELSE "r2"
      [] layout = "hsplit" -> IF r = 0 THEN "r1" ELSE "r2"
      [] layout = "corner" -> IF r = 0 /\ c = 0 THEN "r1" ELSE "r2"

\* the (layout, furnishing) pairs explored
GridShapes ==
    { <<"one", "bare">>, <<"one", "bed_table">>, <<"vsplit", "beds">>,
      <<"hsplit", "bed_table">>, <<"corner", "hole">>, <<"vsplit", "hole">> }

\* the position the "hole" furnishing leaves unlisted
Unlisted(furn, nr, nc, r, c) == furn = "hole" /\ r = nr - 1 /\ c = nc - 1

\* the objects of a listed cell under each furnishing
FurnishObjs(furn, nr, nc, r, c) ==
    CASE furn = "bare" -> {}
      [] furn = "bed_table" ->
             IF r = 0 /\ c = 0 THEN {"BED"}
             ELSE IF r = 1 /\ c = 1 THEN {"TABLE"} ELSE {}
      [] furn = "beds" ->
             IF (r = 0 /\ c = nc - 1) \/ (r = 1 /\ c = 0) THEN {"BED"} ELSE {}
      [] furn = "hole" ->
             IF r = 0 /\ c = 1 THEN {"BED"}
             ELSE IF r = 1 /\ c = 0 THEN {"TABLE"} ELSE {}
      [] furn = "garden" ->
             IF r = 0 /\ c = 0 THEN {"WINDOW"}
             ELSE IF r = 0 /\ c = 1 THEN {"PLANT"}
             ELSE IF r = 1 /\ c = 0 THEN {"BED", "CARPET"}
             ELSE IF r = 1 /\ c = 1 THEN {"TABLE"} ELSE {}

\* _build_grid(grid_spec)
build_grid(nr, nc, layout, furn) ==
    [n_rows |-> nr, n_cols |-> nc,
     room |-> [rc \in (0 .. nr - 1) \X (0 .. nc - 1) |->
                  IF Unlisted(furn, nr, nc, rc[1], rc[2])
                  THEN "__void__"
                  ELSE LayoutRoom(layout, rc[1], rc[2])],
     objs |-> [rc \in (0 .. nr - 1) \X (0 .. nc - 1) |->
                  IF Unlisted(furn, nr, nc, rc[1], rc[2])
                  THEN {"VOID"}
                  ELSE FurnishObjs(furn, nr, nc, rc[1], rc[2])]]

Grids ==
    {build_grid(nr, nc, shape[1], shape[2]) :
        nr \in 2 .. MaxRows, nc \in 2 .. MaxCols, shape \in GridShapes}

AllPeople == <<"A", "B", "C", "D">>

\* the people lists: unique names, 2 .. MaxPeople of them
PeopleLists == {SubSeq(AllPeople, 1, n) : n \in 2 .. MaxPeople}

RoomIds == {"r1", "r2"}
ClueObjects == {"BED", "TABLE", "VOID"}
ColumnClueObjects == {"BED"}
ClueColumns == 0 .. MaxCols

\* a person and a different target
TwoPeople(P) == {pt \in P \X P : pt[1] # pt[2]}

\* every clue the factories build over the given people
ClueUniverse(P) ==
    {Clue("in_room", p, "-", room, "-", 0, inv) :
        p \in P, room \in RoomIds, inv \in BOOLEAN}
    \cup {Clue(kind, p, "-", "-", obj, 0, inv) :
        kind \in {"on_object", "next_to_object"},
        p \in P, obj \in ClueObjects, inv \in BOOLEAN}
    \cup {Clue(kind, p, "-", "-", obj, 0, inv) :
        kind \in {"same_column_as_object", "left_of"},
        p \in P, obj \in ColumnClueObjects, inv \in BOOLEAN}
    \cup {Clue("only_on_object", p, "-", "-", obj, 0, FALSE) :
        p \in P, obj \in ColumnClueObjects}
    \cup {Clue("only_one_person_on", "-", "-", "-", obj, 0, FALSE) :
        obj \in ColumnClueObjects}
    \cup {Clue(kind, p, "-", "-", "-", 0, FALSE) :
        kind \in {"in_corner", "not_next_to_wall", "alone_with_murderer"}, p \in P}
    \cup {Clue(kind, pt[1], pt[2], "-", "-", 0, FALSE) :
        kind \in {"below_person", "above_person", "only_with_person"},
        pt \in TwoPeople(P)}
    \cup {Clue("with_person", pt[1], pt[2], "-", "-", 0, inv) :
        pt \in TwoPeople(P), inv \in BOOLEAN}
    \cup {Clue("at_column", p, "-", "-", "-", col, FALSE) :
        p \in P, col \in ClueColumns}
    \cup {Clue("alone_in_room", p, "-", room, "-", 0, FALSE) :
        p \in P, room \in RoomIds}

\* the clue lists of at most n clues over a universe
RECURSIVE ClueLists(_, _)
ClueLists(U, n) ==
    IF n = 0
    THEN { <<>> }
    ELSE LET shorter == ClueLists(U, n - 1)
         IN  shorter \cup {Append(cl, c) : cl \in shorter, c \in U}

Puzzle(grid, people, victim, clues) ==
    [grid |-> grid, people |-> people, victim |-> victim, clues |-> clues]

\* well-formed puzzles: unique people, victim among them, clues over them
IsPuzzle(pz) ==
    \E people \in PeopleLists :
        \E g \in Grids :
            \E v \in SeqToSet(people) :
                \E cl \in ClueLists(ClueUniverse(SeqToSet(people)), MaxClues) :
                    pz = Puzzle(g, people, v, cl)

(***************************************************************************)
(* The run: BacktrackingSolver(puzzle).solve(), then Solver(puzzle).solve()*)
(* on the same puzzle; one step per row order of permutations(people).     *)
(***************************************************************************)
RowOrders == permutations(puzzle.people)

\* a solver object before its __init__ has run
Unbuilt == [above |-> {}, below |-> {}, col_fixed |-> <<>>, candidate_cols |-> <<>>]

Init ==
    /\ IsPuzzle(puzzle)
    /\ pc = "bt_new"
    /\ bt = Unbuilt
    /\ bf = Unbuilt
    /\ ri = 0
    /\ col_perm = <<>>
    /\ found = <<>>
    /\ btOutcome = Running
    /\ bfFound = <<>>
    /\ bfOutcome = Running
    /\ data = <<>>
    /\ loaded = "-"
    /\ callArgs = <<>>
    /\ callResult = "-"

\* BacktrackingSolver.__init__ and the first lines of solve()
BtStart ==
    /\ pc = "bt_new"
    /\ bt' = [above |-> parse_constraints(puzzle.clues).above,
              below |-> parse_constraints(puzzle.clues).below,
              col_fixed |-> parse_constraints(puzzle.clues).col_fixed,
              candidate_cols |-> candidate_cols(puzzle)]
    /\ found' = <<>>
    /\ col_perm' = [i \in 1 .. Len(puzzle.people) |-> 0]
    /\ ri' = 0
    /\ pc' = "bt"
    /\ UNCHANGED ioVars
    /\ UNCHANGED <<puzzle, bf, btOutcome, bfFound, bfOutcome>>

\* BacktrackingSolver.solve: a row order that _row_order_valid rejects
BtSkipRowOrder ==
    /\ pc = "bt"
    /\ ri < Len(RowOrders)
    /\ ~row_order_valid(bt, RowOrders[ri + 1])
    /\ ri' = ri + 1
    /\ UNCHANGED ioVars
    /\ UNCHANGED <<puzzle, pc, bt, bf, col_perm, found, btOutcome, bfFound, bfOutcome>>

\* BacktrackingSolver.solve: backtrack(0, frozenset()) on an accepted row order
BtSearchRowOrder ==
    /\ pc = "bt"
    /\ ri < Len(RowOrders)
    /\ row_order_valid(bt, RowOrders[ri + 1])
    /\ LET st == backtrack(puzzle, bt.candidate_cols, RowOrders[ri + 1], 0, {},
                           [found |-> found, col_perm |-> col_perm])
       IN  /\ found' = st.found
           /\ col_perm' = st.col_perm
    /\ ri' = ri + 1
    /\ UNCHANGED ioVars
    /\ UNCHANGED <<puzzle, pc, bt, bf, btOutcome, bfFound, bfOutcome>>

\* BacktrackingSolver.solve: return self._finalize(found)
BtFinalize ==
    /\ pc = "bt"
    /\ ri = Len(RowOrders)
    /\ btOutcome' = finalize(found)
    /\ pc' = "bf_new"
    /\ UNCHANGED ioVars
    /\ UNCHANGED <<puzzle, bt, bf, ri, col_perm, found, bfFound, bfOutcome>>

\* Solver.__init__ and the first lines of solve()
BfStart ==
    /\ pc = "bf_new"
    /\ bf' = [above |-> parse_constraints(puzzle.clues).above,
              below |-> parse_constraints(puzzle.clues).below,
              col_fixed |-> parse_constraints(puzzle.clues).col_fixed,
              candidate_cols |-> <<>>]
    /\ bfFound' = <<>>
    /\ ri' = 0
    /\ pc' = "bf"
    /\ UNCHANGED ioVars
    /\ UNCHANGED <<puzzle, bt, col_perm, found, btOutcome, bfOutcome>>

\* Solver.solve: a row order that _row_order_valid rejects
BfSkipRowOrder ==
    /\ pc = "bf"
    /\ ri < Len(RowOrders)
    /\ ~row_order_valid(bf, RowOrders[ri + 1])
    /\ ri' = ri + 1
    /\ UNCHANGED ioVars
    /\ UNCHANGED <<puzzle, pc, bt, bf, col_perm, found, btOutcome, bfFound, bfOutcome>>

\* what the column loop of Solver.solve does on row order ri + 1
BfRowResult ==
    ColPermLoop(puzzle, RowOrders[ri + 1],
                col_perms(bf.col_fixed, RowOrders[ri + 1]),
                1, [found |-> bfFound, raised |-> FALSE])

\* Solver.solve: the column loop of an accepted row order runs through
BfSearchRowOrder ==
    /\ pc = "bf"
    /\ ri < Len(RowOrders)
    /\ row_order_valid(bf, RowOrders[ri + 1])
    /\ ~BfRowResult.raised
    /\ bfFound' = BfRowResult.found
    /\ ri' = ri + 1
    /\ UNCHANGED ioVars
    /\ UNCHANGED <<puzzle, pc, bt, bf, col_perm, found, btOutcome, bfOutcome>>

\* Solver.solve: get_cell raises IndexError in _blocked_placement and the
\* exception leaves solve()
BfRaise ==
    /\ pc = "bf"
    /\ ri < Len(RowOrders)
    /\ row_order_valid(bf, RowOrders[ri + 1])
    /\ BfRowResult.raised
    /\ bfFound' = BfRowResult.found
    /\ bfOutcome' = Outcome("IndexError", <<>>, <<>>)
    /\ pc' = "done"
    /\ UNCHANGED ioVars
    /\ UNCHANGED <<puzzle, bt, bf, ri, col_perm, found, btOutcome>>

\* Solver.solve: return self._finalize(found)
BfFinalize ==
    /\ pc = "bf"
    /\ ri = Len(RowOrders)
    /\ bfOutcome' = finalize(bfFound)
    /\ pc' = "done"
    /\ UNCHANGED ioVars
    /\ UNCHANGED <<puzzle, bt, bf, ri, col_perm, found, btOutcome, bfFound>>

Next ==
    \/ BtStart
    \/ BtSkipRowOrder
    \/ BtSearchRowOrder
    \/ BtFinalize
    \/ BfStart
    \/ BfSkipRowOrder
    \/ BfSearchRowOrder
    \/ BfRaise
    \/ BfFinalize

Spec == Init /\ [][Next]_vars

(***************************************************************************)
(* The two solve() calls as functions of the puzzle: the row-order loop    *)
(* run to its end.                                                         *)
(***************************************************************************)
\* the "for row_order in row_iter" loop of BacktrackingSolver.solve from
\* row order i on; st = [found, col_perm]
RECURSIVE BtRowLoop(_, _, _, _, _, _)
BtRowLoop(pz, cons, cc, orders, i, st) ==
    IF i > Len(orders)
    THEN st
    ELSE IF ~row_order_valid(cons, orders[i])
         THEN BtRowLoop(pz, cons, cc, orders, i + 1, st)
         ELSE BtRowLoop(pz, cons, cc, orders, i + 1,
                        backtrack(pz, cc, orders[i], 0, {}, st))

\* the found list of BacktrackingSolver(pz).solve() when the loop ends
BtFoundOf(pz) ==
    BtRowLoop(pz, parse_constraints(pz.clues), candidate_cols(pz),
              permutations(pz.people), 1,
              [found |-> <<>>,
               col_perm |-> [i \in 1 .. Len(pz.people) |-> 0]]).found

\* BacktrackingSolver(pz).solve()
BtSolve(pz) == finalize(BtFoundOf(pz))

\* the "for row_order in row_iter" loop of Solver.solve from row order i on;
\* st = [found, raised]
RECURSIVE BfRowLoop(_, _, _, _, _)
BfRowLoop(pz, cons, orders, i, st) ==
    IF i > Len(orders) \/ st.raised
    THEN st
    ELSE IF ~row_order_valid(cons, orders[i])
         THEN BfRowLoop(pz, cons, orders, i + 1, st)
         ELSE BfRowLoop(pz, cons, orders, i + 1,
                        ColPermLoop(pz, orders[i],
                                    col_perms(cons.col_fixed, orders[i]), 1, st))

\* Solver(pz).solve()
BfSolve(pz) ==
    LET st == BfRowLoop(pz, parse_constraints(pz.clues), permutations(pz.people),
                        1, [found |-> <<>>, raised |-> FALSE])
    IN  IF st.raised
        THEN Outcome("IndexError", <<>>, <<>>)
        ELSE finalize(st.found)

(***************************************************************************)
(* Placements, stated independently of either search.                      *)
(***************************************************************************)
People(pz) == SeqToSet(pz.people)

\* one-to-one sequences of length n over S
Injections(n, S) ==
    {f \in [1 .. n -> S] : \A i, j \in 1 .. n : f[i] = f[j] => i = j}

\* complete placements inside the grid: a row order that is a permutation of
\* the people over rows 0 .. N-1, pairwise-distinct columns of the grid
GridPlacements(pz) ==
    IF Len(pz.people) > pz.grid.n_rows
    THEN {}
    ELSE {GameState(ro, cp, pz.grid) :
             ro \in Injections(Len(pz.people), People(pz)),
             cp \in Injections(Len(pz.people), Cols(pz.grid))}

\* those that stand on non-blocked cells only
ValidPlacements(pz) ==
    {pl \in GridPlacements(pz) :
        \A i \in 1 .. Len(pz.people) : ~is_blocked(pz.grid, i - 1, pl.col_perm[i])}

\* the number of people in the victim's room
VictimRoomCount(pz, pl) ==
    Cardinality({p \in People(pz) : room_of(pl, p) = room_of(pl, pz.victim)})

\* the placements that satisfy every clue and the murder rule
SatisfyingPlacements(pz) ==
    {pl \in ValidPlacements(pz) : AllClues(pz, pl) /\ VictimRoomCount(pz, pl) = 2}

\* the position map person -> (row, col) of a placement
PositionsOf(pz, pl) == [p \in People(pz) |-> position(pl, p)]

\* a position map is that of a complete placement of the puzzle's people
IsPlacementMap(pz, positions) ==
    /\ DOMAIN positions = People(pz)
    /\ \A p \in People(pz) :
           /\ positions[p][1] \in 0 .. (Len(pz.people) - 1)
           /\ InBounds(pz.grid, positions[p][1], positions[p][2])
    /\ \A p, q \in People(pz) :
           p # q => /\ positions[p][1] # positions[q][1]
                    /\ positions[p][2] # positions[q][2]

\* the placement a position map describes
PlacementOf(pz, positions) ==
    LET ro == [i \in 1 .. Len(pz.people) |->
                  CHOOSE p \in People(pz) : positions[p][1] = i - 1]
    IN  GameState(ro, [i \in 1 .. Len(pz.people) |-> positions[ro[i]][2]], pz.grid)

\* the position maps a found list holds
RecordedMaps(fnd) == {fnd[i].positions : i \in 1 .. Len(fnd)}

BtFinished == btOutcome.kind # "running"
BfFinalized == bfOutcome.kind \notin {"running", "IndexError"}

\* _finalize's answer matches the number of recorded solutions
Classified(outcome, fnd) ==
    /\ (outcome.kind = "NoSolutionError") <=> (Len(fnd) = 0)
    /\ (outcome.kind = "Solution") <=> (Len(fnd) = 1)
    /\ (outcome.kind = "MultipleSolutionsError") <=> (Len(fnd) >= 2)
    /\ outcome.kind = "Solution" => outcome.ret = <<fnd[1]>>

(***************************************************************************)
(* C1: once a solve() call has reached _finalize, it has raised            *)
(* NoSolutionError iff no placement was recorded, returned the single      *)
(* recorded Solution iff exactly one was, and raised                       *)
(* MultipleSolutionsError iff two or more were; for both solvers.          *)
(***************************************************************************)
C1_FinalizeClassifies ==
    /\ BtFinished => Classified(btOutcome, found)
    /\ BfFinalized => Classified(bfOutcome, bfFound)

C1_Witness ==
    /\ pc = "done"
    /\ btOutcome.kind = "MultipleSolutionsError"
    /\ Len(found) = 2
    /\ bfOutcome.kind = "Solution"

(***************************************************************************)
(* C2: the solutions list carried by a MultipleSolutionsError of either    *)
(* solver has one entry per recorded solution, in order, with its murderer *)
(* and the (row, col) of every person; BacktrackingSolver's entries are    *)
(* exactly the placements that satisfy all clues and the murder rule.      *)
(***************************************************************************)
\* the entries of a solutions list are those of the found list, in order
ExposesAll(sols, fnd) ==
    /\ Len(sols) = Len(fnd)
    /\ \A i \in 1 .. Len(sols) :
           /\ sols[i].murderer = fnd[i].murderer
           /\ sols[i].positions = fnd[i].positions
           /\ DOMAIN sols[i].positions = People(puzzle)

C2_AllSolutionsExposed ==
    /\ bfOutcome.kind = "MultipleSolutionsError" =>
           ExposesAll(bfOutcome.solutions, bfFound)
    /\ btOutcome.kind = "MultipleSolutionsError" =>
           LET sols == btOutcome.solutions
               maps == {sols[i].positions : i \in 1 .. Len(sols)}
               passing == {PositionsOf(puzzle, pl) : pl \in SatisfyingPlacements(puzzle)}
           IN  /\ Len(sols) = Len(found)
               /\ \A i \in 1 .. Len(sols) :
                      /\ sols[i].murderer = found[i].murderer
                      /\ sols[i].positions = found[i].positions
                      /\ DOMAIN sols[i].positions = People(puzzle)
                      /\ \A p \in People(puzzle) :
                             sols[i].positions[p] \in all_cells(puzzle.grid)
               /\ maps = passing
               /\ Len(sols) = Cardinality(passing)

C2_Witness ==
    /\ btOutcome.kind = "MultipleSolutionsError"
    /\ Len(btOutcome.solutions) = 3
    /\ Len(puzzle.clues) = 1

(***************************************************************************)
(* C3: every Solution in BacktrackingSolver's found list is the position   *)
(* map of a complete placement on which every clue of the puzzle is true.  *)
(***************************************************************************)
C3_SearchSound ==
    \A i \in 1 .. Len(found) :
        /\ IsPlacementMap(puzzle, found[i].positions)
        /\ AllClues(puzzle, PlacementOf(puzzle, found[i].positions))

\* a solution recorded under a relational clue, which the domain reduction
\* does not use
C3_Witness ==
    /\ Len(found) > 0
    /\ Len(puzzle.clues) = 1
    /\ puzzle.clues[1].kind \in {"with_person", "only_with_person", "left_of",
                                 "same_column_as_object"}
    /\ \E pl \in ValidPlacements(puzzle) : ~AllClues(puzzle, pl)

IsTwoByTwoPuzzle ==
    /\ puzzle.grid = build_grid(2, 2, "one", "bare")
    /\ Len(puzzle.people) = 2
    /\ puzzle.clues = <<>>

\* both solve() calls raised MultipleSolutionsError with n entries, the
\* entries being exactly the satisfying placements
RaisesExactly(n) ==
    LET passing == {PositionsOf(puzzle, pl) : pl \in SatisfyingPlacements(puzzle)}
    IN  /\ Cardinality(passing) = n
        /\ btOutcome.kind = "MultipleSolutionsError"
        /\ Len(btOutcome.solutions) = n
        /\ RecordedMaps(btOutcome.solutions) = passing
        /\ bfOutcome.kind = "MultipleSolutionsError"
        /\ Len(bfOutcome.solutions) = n
        /\ RecordedMaps(bfOutcome.solutions) = passing

C5_TwoPlacements ==
    (IsTwoByTwoPuzzle /\ pc = "done") => RaisesExactly(2)

C5_FourPlacements ==
    (IsTwoByTwoPuzzle /\ pc = "done") => RaisesExactly(4)

C5_Witness ==
    /\ IsTwoByTwoPuzzle
    /\ pc = "done"
    /\ btOutcome.kind = "MultipleSolutionsError"
    /\ bfOutcome.kind = "MultipleSolutionsError"

(***************************************************************************)
(* C6: in every Solution recorded by either solver the murderer is a       *)
(* person other than the victim, stands in the victim's room, and nobody   *)
(* else stands in that room.                                               *)
(***************************************************************************)
RoomAt(pz, sol, p) == room_id(pz.grid, sol.positions[p][1], sol.positions[p][2])

UniqueCoOccupant(pz, sol) ==
    /\ sol.murderer \in People(pz) \ {pz.victim}
    /\ RoomAt(pz, sol, sol.murderer) = RoomAt(pz, sol, pz.victim)
    /\ \A q \in People(pz) \ {pz.victim, sol.murderer} :
           RoomAt(pz, sol, q) # RoomAt(pz, sol, pz.victim)

C6_MurdererIsCoOccupant ==
    /\ \A i \in 1 .. Len(found) : UniqueCoOccupant(puzzle, found[i])
    /\ \A i \in 1 .. Len(bfFound) : UniqueCoOccupant(puzzle, bfFound[i])

\* both solvers recorded a solution of a three-person puzzle
C6_Witness ==
    /\ Len(puzzle.people) = 3
    /\ Len(found) > 0
    /\ Len(bfFound) > 0

(***************************************************************************)
(* C7: a complete placement that leaves the victim alone in the room, or   *)
(* with two or more others, is in neither solver's found list, whatever    *)
(* the clues say about it and whether or not alone_with_murderer is one of *)
(* them.                                                                   *)
(***************************************************************************)
C7_MurderRuleBoundary ==
    \A pl \in GridPlacements(puzzle) :
        VictimRoomCount(puzzle, pl) # 2 =>
            /\ PositionsOf(puzzle, pl) \notin RecordedMaps(found)
            /\ PositionsOf(puzzle, pl) \notin RecordedMaps(bfFound)

\* both searches ended with solutions on a puzzle without alone_with_murderer
\* where clue-satisfying placements with 1 and with 3 occupants exist
C7_Witness ==
    /\ pc = "done"
    /\ Len(found) > 0
    /\ Len(bfFound) > 0
    /\ \A i \in 1 .. Len(puzzle.clues) :
           puzzle.clues[i].kind # "alone_with_murderer"
    /\ \E pl \in ValidPlacements(puzzle) :
           AllClues(puzzle, pl) /\ VictimRoomCount(puzzle, pl) = 1
    /\ \E pl \in ValidPlacements(puzzle) :
           AllClues(puzzle, pl) /\ VictimRoomCount(puzzle, pl) >= 3

(***************************************************************************)
(* C8: when both solve() calls have ended, they ended in the same outcome  *)
(* kind, with the same Solution when unique and the same set of solutions  *)
(* when MultipleSolutionsError.                                            *)
(***************************************************************************)
C8_SolversAgree ==
    pc = "done" =>
        /\ btOutcome.kind = bfOutcome.kind
        /\ btOutcome.kind = "Solution" => btOutcome.ret = bfOutcome.ret
        /\ btOutcome.kind = "MultipleSolutionsError" =>
               SeqToSet(btOutcome.solutions) = SeqToSet(bfOutcome.solutions)

(***************************************************************************)
(* C9: each filter of the domain reduction leaves a person's candidate     *)
(* cells a subset of what they were, and keeps every cell on which the     *)
(* clue is true for that person in some complete placement; the candidate  *)
(* columns the solver holds are those of the last filter's result.         *)
(***************************************************************************)
\* candidates before clue i of the list is applied
CandidatesBefore(pz, i) ==
    FilterLoop(SubSeq(pz.clues, 1, i - 1), 1,
               [p \in People(pz) |-> valid_cells(pz.grid)], pz.grid)

\* candidates after clue i of the list is applied
CandidatesAfter(pz, i) ==
    apply_domain_filter(ClueName(pz.clues[i]), CandidatesBefore(pz, i), pz.grid)

\* clue i is one the domain reduction acts on
IsFilterClue(pz, i) ==
    \E k \in 1 .. Len(FilterPatterns) :
        ReMatch(FilterPatterns[k].tag, FilterPatterns[k].groups,
                ClueName(pz.clues[i]))

\* the clue is true in some complete placement that has the person on cell
CanHold(pz, clue, person, cell) ==
    \E pl \in GridPlacements(pz) :
        position(pl, person) = cell /\ EvalClue(clue, pl)

SolverBuilt == pc = "bt" /\ ri = 0

C10_ThreeOutcomes ==
    pc = "done" =>
        /\ btOutcome.kind \in {"Solution", "NoSolutionError", "MultipleSolutionsError"}
        /\ bfOutcome.kind \in {"Solution", "NoSolutionError", "MultipleSolutionsError"}

(***************************************************************************)
(* C11: every Solution of either solver, in its found list, returned, or   *)
(* carried by MultipleSolutionsError, maps exactly the puzzle's people to  *)
(* cells of the grid that are not blocked, no two in the same row and no   *)
(* two in the same column.                                                 *)
(***************************************************************************)
WellPlaced(pz, positions) ==
    /\ DOMAIN positions = People(pz)
    /\ \A p \in People(pz) :
           /\ InBounds(pz.grid, positions[p][1], positions[p][2])
           /\ ~is_blocked(pz.grid, positions[p][1], positions[p][2])
    /\ \A p, q \in People(pz) :
           p # q => /\ positions[p][1] # positions[q][1]
                    /\ positions[p][2] # positions[q][2]

AllWellPlaced(pz, sols) ==
    \A i \in 1 .. Len(sols) : WellPlaced(pz, sols[i].positions)

C11_SolutionsWellPlaced ==
    /\ AllWellPlaced(puzzle, found)
    /\ AllWellPlaced(puzzle, bfFound)
    /\ AllWellPlaced(puzzle, btOutcome.ret)
    /\ AllWellPlaced(puzzle, btOutcome.solutions)
    /\ AllWellPlaced(puzzle, bfOutcome.ret)
    /\ AllWellPlaced(puzzle, bfOutcome.solutions)

\* both solvers ended with solutions on a grid where some complete
\* placement would stand on a blocked cell
C11_Witness ==
    /\ pc = "done"
    /\ Len(found) > 0
    /\ Len(bfFound) > 0
    /\ GridPlacements(puzzle) # ValidPlacements(puzzle)

(***************************************************************************)
(* C12: for an in_room, on_object, next_to_object or with_person clue and  *)
(* any complete placement, the clue built with the opposite invert flag    *)
(* evaluates to the negation of the clue itself.                           *)
(***************************************************************************)
InvertibleKinds == {"in_room", "on_object", "next_to_object", "with_person"}

\* the clue built from the same arguments with the other invert flag
Opposite(clue) == [clue EXCEPT !.inv = ~clue.inv]

C12_InvertNegates ==
    \A i \in 1 .. Len(puzzle.clues) :
        puzzle.clues[i].kind \in InvertibleKinds =>
            \A pl \in GridPlacements(puzzle) :
                EvalClue(Opposite(puzzle.clues[i]), pl) <=>
                    ~EvalClue(puzzle.clues[i], pl)

\* the search recorded a solution under an inverted clue that some
\* placements satisfy and others do not
C12_Witness ==
    /\ Len(found) > 0
    /\ Len(puzzle.clues) = 1
    /\ puzzle.clues[1].kind \in InvertibleKinds
    /\ puzzle.clues[1].inv
    /\ \E pl \in GridPlacements(puzzle) : EvalClue(puzzle.clues[1], pl)
    /\ \E pl \in GridPlacements(puzzle) : ~EvalClue(puzzle.clues[1], pl)

(***************************************************************************)
(* C13: in_corner(p) is true iff two perpendicular directions from p's     *)
(* cell are both walls (off the grid or another room), so never on the     *)
(* strength of two opposite walls alone; in a single-room grid of H rows   *)
(* and W columns that is exactly at (0,0), (0,W-1), (H-1,0), (H-1,W-1).    *)
(***************************************************************************)
\* the directions from (r, c) that leave the grid or the room of (r, c)
WallDirs(grid, r, c) ==
    {d \in {<<-1, 0>>, <<1, 0>>, <<0, -1>>, <<0, 1>>} :
        \/ r + d[1] \notin 0 .. (grid.n_rows - 1)
        \/ c + d[2] \notin 0 .. (grid.n_cols - 1)
        \/ grid.room[<<r + d[1], c + d[2]>>] # grid.room[<<r, c>>]}

\* one direction is vertical and the other horizontal
Perpendicular(d, e) == (d[1] = 0) # (e[1] = 0)

SingleRoom(grid) ==
    \A x, y \in DOMAIN grid.room : grid.room[x] = grid.room[y]

GeometricCorners(grid) ==
    {0, grid.n_rows - 1} \X {0, grid.n_cols - 1}

C13_CornerDetection ==
    \A pl \in GridPlacements(puzzle) :
        \A p \in People(puzzle) :
            LET rc == position(pl, p)
                walls == WallDirs(puzzle.grid, rc[1], rc[2])
            IN  /\ in_corner(pl, p) <=>
                       \E d, e \in walls : Perpendicular(d, e)
                /\ SingleRoom(puzzle.grid) =>
                       (in_corner(pl, p) <=> rc \in GeometricCorners(puzzle.grid))

\* a solution recorded under an in_corner clue on a single-room grid that
\* has cells outside the four corners
C13_Witness ==
    /\ SingleRoom(puzzle.grid)
    /\ Len(puzzle.clues) = 1
    /\ puzzle.clues[1].kind = "in_corner"
    /\ Len(found) > 0
    /\ found[1].positions[puzzle.clues[1].p] \in GeometricCorners(puzzle.grid)
    /\ \E pl \in ValidPlacements(puzzle) :
           position(pl, puzzle.clues[1].p) \notin GeometricCorners(puzzle.grid)

(***************************************************************************)
(* C14: not_next_to_wall(p) is true iff the four orthogonal neighbours of  *)
(* p's cell are all in the grid and in p's room; in a single-room grid it  *)
(* is false on the outer boundary.                                         *)
(***************************************************************************)
OnBoundary(grid, rc) ==
    \/ rc[1] \in {0, grid.n_rows - 1}
    \/ rc[2] \in {0, grid.n_cols - 1}

C14_WallInteriority ==
    \A pl \in GridPlacements(puzzle) :
        \A p \in People(puzzle) :
            LET rc == position(pl, p)
            IN  /\ not_next_to_wall(pl, p) <=>
                       WallDirs(puzzle.grid, rc[1], rc[2]) = {}
                /\ (SingleRoom(puzzle.grid) /\ OnBoundary(puzzle.grid, rc)) =>
                       ~not_next_to_wall(pl, p)

\* a solution recorded under a not_next_to_wall clue: its person stands on
\* an interior cell while boundary cells were open to them
C14_Witness ==
    /\ Len(puzzle.clues) = 1
    /\ puzzle.clues[1].kind = "not_next_to_wall"
    /\ Len(found) > 0
    /\ ~OnBoundary(puzzle.grid, found[1].positions[puzzle.clues[1].p])
    /\ \E pl \in ValidPlacements(puzzle) :
           OnBoundary(puzzle.grid, position(pl, puzzle.clues[1].p))

(***************************************************************************)
(* clues/registry.py and loading/parser.py: a clue spec of the JSON input  *)
(* is a record of its fields; CLUE_REGISTRY[type] builds the clue from it. *)
(***************************************************************************)
ClueSpec(type, person, target, room, object, column, invert, different_room) ==
    [type |-> type, person |-> person, target |-> target, room |-> room,
     object |-> object, column |-> column, invert |-> invert,
     different_room |-> different_room]

\* _OBJ of registry.py: keyed by ObjectType value
OBJ_has(key) == \E o \in ObjectType : ObjValue(o) = key
OBJ_at(key) == CHOOSE o \in ObjectType : ObjValue(o) = key

\* what a call or a lookup gives: a value, or the exception it raises
Value(v) == [raises |-> "-", value |-> v]
Raises(e) == [raises |-> e, value |-> "-"]

\* _obj(spec) on the object name given (spec["object"], or spec["target"]
\* for _obj_target)
obj_of(name) ==
    IF OBJ_has(Lower(name)) THEN Value(OBJ_at(Lower(name))) ELSE Raises("ValueError")

\* the number of parameters without a default in each factory's signature
RequiredArgs(kind) ==
    CASE kind \in {"only_one_person_on", "alone_with_murderer", "in_corner",
                   "not_next_to_wall"} -> 1
      [] kind \in {"on_object", "only_on_object", "next_to_object",
                   "with_person", "alone_in_room", "below_person",
                   "above_person", "at_column"} -> 2
      [] kind \in {"in_room", "same_column_as_object", "left_of"} -> 3

\* a call of a factory with n positional arguments: TypeError when a
\* required one is missing, else the clue
Call(kind, n, clue) ==
    IF n < RequiredArgs(kind) THEN Raises("TypeError") ELSE Value(clue)

\* the registry keys and the factory each one's lambda calls
RegistryKinds ==
    [in_room |-> "in_room", on_object |-> "on_object",
     only_on_object |-> "only_on_object",
     only_one_person_on |-> "only_one_person_on",
     next_to_object |-> "next_to_object",
     alone_with_murderer |-> "alone_with_murderer",
     with_person |-> "with_person", in_same_room_as_person |-> "with_person",
     alone_in_room |-> "alone_in_room", in_corner |-> "in_corner",
     at_corner |-> "in_corner", not_next_to_wall |-> "not_next_to_wall",
     below_person |-> "below_person", above_person |-> "above_person",
     at_column |-> "at_column",
     same_column_as_object |-> "same_column_as_object", left_of |-> "left_of"]

\* CLUE_REGISTRY[s.type](s): arguments are evaluated before the call
Builder(s) ==
    LET kind == RegistryKinds[s.type]
        o == obj_of(IF kind = "left_of" THEN s.target ELSE s.object)
    IN  CASE kind = "in_room" ->
                 Call(kind, 2, Clue(kind, s.person, "-", s.room, "-", 0, FALSE))
          [] kind \in {"on_object", "next_to_object"} ->
                 IF o.raises # "-" THEN o
                 ELSE Call(kind, 3, Clue(kind, s.person, "-", "-", o.value, 0, s.invert))
          [] kind = "only_on_object" ->
                 IF o.raises # "-" THEN o
                 ELSE Call(kind, 2, Clue(kind, s.person, "-", "-", o.value, 0, FALSE))
          [] kind = "only_one_person_on" ->
                 IF o.raises # "-" THEN o
                 ELSE Call(kind, 1, Clue(kind, "-", "-", "-", o.value, 0, FALSE))
          [] kind \in {"alone_with_murderer", "in_corner", "not_next_to_wall"} ->
                 Call(kind, 1, Clue(kind, s.person, "-", "-", "-", 0, FALSE))
          [] kind = "with_person" ->
                 Call(kind, 3, Clue(kind, s.person, s.target, "-", "-", 0, s.invert))
          [] kind = "alone_in_room" ->
                 Call(kind, 2, Clue(kind, s.person, "-", s.room, "-", 0, FALSE))
          [] kind \in {"below_person", "above_person"} ->
                 Call(kind, 2, Clue(kind, s.person, s.target, "-", "-", 0, FALSE))
          [] kind = "at_column" ->
                 Call(kind, 2, Clue(kind, s.person, "-", "-", "-", s.column, FALSE))
          [] kind \in {"same_column_as_object", "left_of"} ->
                 IF o.raises # "-" THEN o
                 ELSE Call(kind, 3, Clue(kind, s.person, "-", "-", o.value, 0,
                                         s.different_room))

\* _parse_clue(spec)
parse_clue(s) ==
    IF s.type \notin DOMAIN RegistryKinds
    THEN Raises("ValueError")
    ELSE Builder(s)

\* [_parse_clue(spec) for spec in data["clues"]] from spec i on: the list of
\* clues, or the first exception
RECURSIVE ParseClues(_, _, _)
ParseClues(specs, i, built) ==
    IF i > Len(specs)
    THEN Value(built)
    ELSE LET c == parse_clue(specs[i])
         IN  IF c.raises # "-"
             THEN c
             ELSE ParseClues(specs, i + 1, Append(built, c.value))

\* parse_puzzle(data)
parse_puzzle(d) ==
    LET grid == build_grid(d.grid.rows, d.grid.cols, d.grid.layout, d.grid.furn)
        clues == ParseClues(d.clues, 1, <<>>)
    IN  IF clues.raises # "-"
        THEN clues
        ELSE Value(Puzzle(grid, d.people, d.victim, clues.value))

(***************************************************************************)
(* The calls of backtrack, in order: one record per invocation, with its   *)
(* row_idx, its used_cols and the columns assigned to rows 0 .. row_idx-1  *)
(* on the branch.  st = [calls, col_perm].                                 *)
(***************************************************************************)
RECURSIVE backtrack_calls(_, _, _, _, _, _)
RECURSIVE ForColsCalls(_, _, _, _, _, _, _)

\* the loop with the assignment moved after the recursive call
ForColsCalls_AssignAfter(n, cc, row_order, row_idx, used_cols, todo, st) ==
    IF todo = <<>>
    THEN st
    ELSE LET col == Head(todo)
             after == backtrack_calls(n, cc, row_order, row_idx + 1,
                                      used_cols \cup {col}, st)
             assigned == [after EXCEPT !.col_perm[row_idx + 1] = col]
         IN  ForColsCalls(n, cc, row_order, row_idx, used_cols, Tail(todo), assigned)

\* the calls made when "- used_cols" is left out
backtrack_calls_IgnoresUsed(n, cc, row_order, row_idx, used_cols, st) ==
    LET logged == [st EXCEPT !.calls =
                      Append(@, [row_idx |-> row_idx, used_cols |-> used_cols,
                                 prefix |-> SubSeq(st.col_perm, 1, row_idx)])]
    IN  IF row_idx = n
        THEN logged
        ELSE LET person == row_order[row_idx + 1]
                 allowed == CandidateColsGet(cc, person, row_idx)
             IN  ForColsCalls(n, cc, row_order, row_idx, used_cols,
                              Ascending(allowed), logged)

backtrack_calls(n, cc, row_order, row_idx, used_cols, st) ==
    LET logged == [st EXCEPT !.calls =
                      Append(@, [row_idx |-> row_idx, used_cols |-> used_cols,
                                 prefix |-> SubSeq(st.col_perm, 1, row_idx)])]
    IN  IF row_idx = n
        THEN logged
        ELSE LET person == row_order[row_idx + 1]
                 allowed == CandidateColsGet(cc, person, row_idx) \ used_cols
             IN  ForColsCalls(n, cc, row_order, row_idx, used_cols,
                              Ascending(allowed), logged)

ForColsCalls(n, cc, row_order, row_idx, used_cols, todo, st) ==
    IF todo = <<>>
    THEN st
    ELSE LET col == Head(todo)
             assigned == [st EXCEPT !.col_perm[row_idx + 1] = col]
             after == backtrack_calls(n, cc, row_order, row_idx + 1,
                                      used_cols \cup {col}, assigned)
         IN  ForColsCalls(n, cc, row_order, row_idx, used_cols, Tail(todo), after)

\* the calls backtrack(0, frozenset()) makes on a row order
CallsOf(pz, cc, row_order, cp) ==
    backtrack_calls(Len(pz.people), cc, row_order, 0, {},
                    [calls |-> <<>>, col_perm |-> cp])

\* the column lists _try_solution is called with, in order
LeavesOf(pz, calls) ==
    LET leaves == SelectSeq(calls, LAMBDA c : c.row_idx = Len(pz.people))
    IN  [k \in 1 .. Len(leaves) |-> leaves[k].prefix]

(***************************************************************************)
(* The search on a puzzle whose clues may name somebody who is not in      *)
(* people: GameState._pos[person] raises KeyError, and so does ro_idx[p].  *)
(***************************************************************************)
\* the people a clue's closure looks up in the state when it is called
Lookups(clue) ==
    CASE clue.kind \in {"in_room", "on_object", "next_to_object", "in_corner",
                        "not_next_to_wall", "at_column", "alone_with_murderer",
                        "alone_in_room", "only_with_person",
                        "same_column_as_object", "left_of"} -> {clue.p}
      [] clue.kind \in {"below_person", "above_person", "with_person"} ->
             {clue.p, clue.t}
      [] clue.kind \in {"only_on_object", "only_one_person_on"} -> {}

\* all(clue(state) for clue in clues) from clue i on:
\* "True" | "False" | "KeyError"
RECURSIVE all_clues(_, _, _)
all_clues(pz, state, i) ==
    IF i > Len(pz.clues)
    THEN "True"
    ELSE IF ~(Lookups(pz.clues[i]) \subseteq SeqToSet(pz.people))
         THEN "KeyError"
         ELSE IF ~EvalClue(pz.clues[i], state)
              THEN "False"
              ELSE all_clues(pz, state, i + 1)

\* the "for ... in self._above" / "in self._below" generator of
\* _row_order_valid over the pairs of the clue list, in order:
\* "True" | "False" | "KeyError"
RECURSIVE any_pair(_, _, _, _)
any_pair(clues, tag, row_order, i) ==
    IF i > Len(clues)
    THEN "False"
    ELSE IF ~ReMatch(tag, <<"q", "q">>, ClueName(clues[i]))
         THEN any_pair(clues, tag, row_order, i + 1)
         ELSE LET p == GroupText(ClueName(clues[i]), 1)
                  t == GroupText(ClueName(clues[i]), 2)
              IN  IF ~({p, t} \subseteq SeqToSet(row_order))
                  THEN "KeyError"
                  ELSE IF (tag = "above_person"
                              /\ IndexOf(row_order, p) >= IndexOf(row_order, t))
                          \/ (tag = "below_person"
                              /\ IndexOf(row_order, p) <= IndexOf(row_order, t))
                       THEN "True"
                       ELSE any_pair(clues, tag, row_order, i + 1)

\* _row_order_valid(ro_idx): "True" | "False" | "KeyError"
row_order_check(clues, row_order) ==
    LET a == any_pair(clues, "above_person", row_order, 1)
        b == any_pair(clues, "below_person", row_order, 1)
    IN  IF a = "KeyError" THEN "KeyError"
        ELSE IF a = "True" THEN "False"
        ELSE IF b = "KeyError" THEN "KeyError"
        ELSE IF b = "True" THEN "False"
        ELSE "True"

\* _try_solution on each leaf in turn; st = [found, raised, col_perm], with
\* col_perm the list as the loop leaves it
RECURSIVE LeafLoop(_, _, _, _, _)
LeafLoop(pz, row_order, leaves, k, st) ==
    IF k > Len(leaves)
    THEN st
    ELSE LET state == GameState(row_order, leaves[k], pz.grid)
             passed == all_clues(pz, state, 1)
         IN  IF passed = "KeyError"
             THEN [st EXCEPT !.raised = TRUE, !.col_perm = leaves[k]]
             ELSE IF passed = "False"
                  THEN LeafLoop(pz, row_order, leaves, k + 1, st)
                  ELSE LeafLoop(pz, row_order, leaves, k + 1,
                                [st EXCEPT !.found = @ \o SolutionOf(pz, state)])

(***************************************************************************)
(* The run from a JSON input: parse_puzzle(data), then                     *)
(* BacktrackingSolver(puzzle).solve(), as main.py does.                    *)
(***************************************************************************)
\* a name no people list holds, a room no grid holds, and the object names
\* of the input ("sofa" is no ObjectType)
Stranger == "Z"
UnknownRoom == "r9"
RawObjects == {"bed", "TABLE", "sofa"}
RawColumns == {0, 1}
UnknownType == "near_window"

\* the grids of the inputs
LoadShapes == { <<"one", "bare">>, <<"hsplit", "bed_table">>, <<"corner", "hole">> }

\* the clue specs over the people P and the stranger
SpecUniverse(P) ==
    LET Q == P \cup {Stranger}
        R == RoomIds \cup {UnknownRoom}
    IN  {ClueSpec("in_room", p, "-", room, "-", 0, inv, FALSE) :
            p \in Q, room \in R, inv \in BOOLEAN}
        \cup {ClueSpec("alone_in_room", p, "-", room, "-", 0, FALSE, FALSE) :
            p \in Q, room \in R}
        \cup {ClueSpec(type, p, "-", "-", obj, 0, inv, FALSE) :
            type \in {"on_object", "next_to_object"},
            p \in Q, obj \in RawObjects, inv \in BOOLEAN}
        \cup {ClueSpec("only_on_object", p, "-", "-", obj, 0, FALSE, FALSE) :
            p \in Q, obj \in RawObjects}
        \cup {ClueSpec("only_one_person_on", "-", "-", "-", obj, 0, FALSE, FALSE) :
            obj \in RawObjects}
        \cup {ClueSpec(type, p, "-", "-", "-", 0, FALSE, FALSE) :
            type \in {"alone_with_murderer", "in_corner", "at_corner",
                      "not_next_to_wall", UnknownType}, p \in Q}
        \cup {ClueSpec(type, pt[1], pt[2], "-", "-", 0, inv, FALSE) :
            type \in {"with_person", "in_same_room_as_person"},
            pt \in TwoPeople(Q), inv \in BOOLEAN}
        \cup {ClueSpec(type, pt[1], pt[2], "-", "-", 0, FALSE, FALSE) :
            type \in {"below_person", "above_person"}, pt \in TwoPeople(Q)}
        \cup {ClueSpec("at_column", p, "-", "-", "-", col, FALSE, FALSE) :
            p \in Q, col \in RawColumns}
        \cup {ClueSpec("same_column_as_object", p, "-", "-", obj, 0, FALSE, dr) :
            p \in Q, obj \in RawObjects, dr \in BOOLEAN}
        \cup {ClueSpec("left_of", p, obj, "-", "-", 0, FALSE, dr) :
            p \in Q, obj \in RawObjects, dr \in BOOLEAN}

\* the JSON inputs explored
IsData(d) ==
    \E people \in PeopleLists :
        \E nr \in 2 .. MaxRows, nc \in 2 .. MaxCols, shape \in LoadShapes :
            \E v \in SeqToSet(people) :
                \E cl \in ClueLists(SpecUniverse(SeqToSet(people)), MaxClues) :
                    d = [grid |-> [rows |-> nr, cols |-> nc,
                                   layout |-> shape[1], furn |-> shape[2]],
                         people |-> people, victim |-> v, clues |-> cl]

LoadInit ==
    /\ IsData(data)
    /\ loaded = "-"
    /\ puzzle = <<>>
    /\ pc = "load"
    /\ bt = Unbuilt
    /\ bf = Unbuilt
    /\ ri = 0
    /\ col_perm = <<>>
    /\ found = <<>>
    /\ btOutcome = Running
    /\ bfFound = <<>>
    /\ bfOutcome = Running
    /\ callArgs = <<>>
    /\ callResult = "-"

\* parse_puzzle(data) returns the Puzzle
LdParse ==
    /\ pc = "load"
    /\ parse_puzzle(data).raises = "-"
    /\ puzzle' = parse_puzzle(data).value
    /\ loaded' = "Puzzle"
    /\ pc' = "bt_new"
    /\ UNCHANGED <<bt, bf, ri, col_perm, found, btOutcome, bfFound, bfOutcome,
                   data, callArgs, callResult>>

\* parse_puzzle(data) raises: no Puzzle, no solver
LdParseRaise ==
    /\ pc = "load"
    /\ parse_puzzle(data).raises # "-"
    /\ loaded' = parse_puzzle(data).raises
    /\ pc' = "failed"
    /\ UNCHANGED <<puzzle, bt, bf, ri, col_perm, found, btOutcome, bfFound,
                   bfOutcome, data, callArgs, callResult>>

\* what backtrack(0, frozenset()) does on row order ri + 1
LdRowResult ==
    LET calls == CallsOf(puzzle, bt.candidate_cols, RowOrders[ri + 1], col_perm)
    IN  LeafLoop(puzzle, RowOrders[ri + 1], LeavesOf(puzzle, calls.calls), 1,
                 [found |-> found, raised |-> FALSE, col_perm |-> calls.col_perm])

\* solve(): a row order that _row_order_valid rejects
LdSkipRowOrder ==
    /\ pc = "bt"
    /\ loaded = "Puzzle"
    /\ ri < Len(RowOrders)
    /\ row_order_check(puzzle.clues, RowOrders[ri + 1]) = "False"
    /\ ri' = ri + 1
    /\ UNCHANGED <<puzzle, pc, bt, bf, col_perm, found, btOutcome, bfFound,
                   bfOutcome>>
    /\ UNCHANGED ioVars

\* solve(): backtrack(0, frozenset()) on an accepted row order runs through
LdSearchRowOrder ==
    /\ pc = "bt"
    /\ loaded = "Puzzle"
    /\ ri < Len(RowOrders)
    /\ row_order_check(puzzle.clues, RowOrders[ri + 1]) = "True"
    /\ ~LdRowResult.raised
    /\ found' = LdRowResult.found
    /\ col_perm' = LdRowResult.col_perm
    /\ ri' = ri + 1
    /\ UNCHANGED <<puzzle, pc, bt, bf, btOutcome, bfFound, bfOutcome>>
    /\ UNCHANGED ioVars

\* solve(): KeyError leaves _row_order_valid
LdRaiseRowOrder ==
    /\ pc = "bt"
    /\ loaded = "Puzzle"
    /\ ri < Len(RowOrders)
    /\ row_order_check(puzzle.clues, RowOrders[ri + 1]) = "KeyError"
    /\ btOutcome' = Outcome("KeyError", <<>>, <<>>)
    /\ pc' = "done"
    /\ UNCHANGED <<puzzle, bt, bf, ri, col_perm, found, bfFound, bfOutcome>>
    /\ UNCHANGED ioVars

\* solve(): KeyError leaves a clue called by _try_solution
LdRaiseClue ==
    /\ pc = "bt"
    /\ loaded = "Puzzle"
    /\ ri < Len(RowOrders)
    /\ row_order_check(puzzle.clues, RowOrders[ri + 1]) = "True"
    /\ LdRowResult.raised
    /\ found' = LdRowResult.found
    /\ col_perm' = LdRowResult.col_perm
    /\ btOutcome' = Outcome("KeyError", <<>>, <<>>)
    /\ pc' = "done"
    /\ UNCHANGED <<puzzle, bt, bf, ri, bfFound, bfOutcome>>
    /\ UNCHANGED ioVars

\* solve(): return self._finalize(found)
LdFinalize ==
    /\ pc = "bt"
    /\ loaded = "Puzzle"
    /\ ri = Len(RowOrders)
    /\ btOutcome' = finalize(found)
    /\ pc' = "done"
    /\ UNCHANGED <<puzzle, bt, bf, ri, col_perm, found, bfFound, bfOutcome>>
    /\ UNCHANGED ioVars

LoadNext ==
    \/ LdParse
    \/ LdParseRaise
    \/ BtStart
    \/ LdSkipRowOrder
    \/ LdSearchRowOrder
    \/ LdRaiseRowOrder
    \/ LdRaiseClue
    \/ LdFinalize

LoadSpec == LoadInit /\ [][LoadNext]_vars

(***************************************************************************)
(* C15: an input whose clue specs name an unknown object tag, a person who *)
(* is not in people, or a room the grid does not hold, makes parse_puzzle  *)
(* raise: no Puzzle is built from it, so nothing of it reaches a solver.   *)
(***************************************************************************)
\* the fields of a spec that name a person, by registry key
PersonFields(s) ==
    IF s.type \in {"with_person", "in_same_room_as_person", "below_person",
                   "above_person"}
    THEN {s.person, s.target}
    ELSE IF s.type = "only_one_person_on" THEN {} ELSE {s.person}

\* the object name of a spec, when its type takes one
ObjectFields(s) ==
    IF s.type = "left_of" THEN {s.target}
    ELSE IF s.type \in {"on_object", "next_to_object", "only_on_object",
                        "only_one_person_on", "same_column_as_object"}
         THEN {s.object} ELSE {}

RoomFields(s) == IF s.type \in {"in_room", "alone_in_room"} THEN {s.room} ELSE {}

\* the room ids of the grid the input describes
RoomsOfData(d) ==
    LET grid == build_grid(d.grid.rows, d.grid.cols, d.grid.layout, d.grid.furn)
    IN  {grid.room[rc] : rc \in DOMAIN grid.room}

NamesUnknown(d, s) ==
    \/ \E p \in PersonFields(s) : p \notin SeqToSet(d.people)
    \/ \E o \in ObjectFields(s) : \A t \in ObjectType : ObjValue(t) # Lower(o)
    \/ \E r \in RoomFields(s) : r \notin RoomsOfData(d)

C15_FailFast ==
    (pc # "load" /\ \E i \in 1 .. Len(data.clues) : NamesUnknown(data, data.clues[i]))
        => /\ loaded \notin {"-", "Puzzle"}
           /\ pc = "failed"

(***************************************************************************)
(* C17: an in_room clue spec, which the registry builds as                 *)
(* in_room(person, room) without an invert argument, gives a clue that     *)
(* holds exactly when the person's room is the given room.                 *)
(***************************************************************************)
C17_InRoomInvertOptional ==
    pc # "load" =>
        \A i \in 1 .. Len(data.clues) :
            (/\ data.clues[i].type = "in_room"
             /\ \A j \in 1 .. Len(data.clues) :
                    j # i => parse_clue(data.clues[j]).raises = "-")
            => /\ loaded = "Puzzle"
               /\ \A pl \in GridPlacements(puzzle) :
                      data.clues[i].person \in People(puzzle) =>
                          (EvalClue(puzzle.clues[i], pl) <=>
                              room_of(pl, data.clues[i].person) = data.clues[i].room)

(***************************************************************************)
(* grid.py: Grid.get_cell(row, col) called directly, on any pair of        *)
(* integers.  self._cells[row][col] is Python list indexing: an index from *)
(* -len to -1 counts from the end, anything outside -len .. len-1 raises   *)
(* IndexError.  A cell is named by its (row, col).                         *)
(***************************************************************************)
\* list[i] on a list of length n, as the position it reads
ListIndex(n, i) ==
    IF i \in 0 .. (n - 1)
    THEN Value(i)
    ELSE IF i \in (-n) .. (-1)
         THEN Value(i + n)
         ELSE Raises("IndexError")

\* Grid.get_cell(row, col)
get_cell(grid, row, col) ==
    LET r == ListIndex(grid.n_rows, row)
        c == ListIndex(grid.n_cols, col)
    IN  IF r.raises # "-" THEN r
        ELSE IF c.raises # "-" THEN c
        ELSE Value(<<r.value, c.value>>)

\* the integers handed to get_cell
CallIndices == (0 - MaxRows - 1) .. (MaxRows + 1)

\* the grids of the direct calls: those of the puzzles and furnished ones
CallGrids ==
    Grids \cup {build_grid(nr, nc, "one", "garden") :
                    nr \in 2 .. MaxRows, nc \in 2 .. MaxCols}

CallInit ==
    /\ \/ callArgs \in [op : {"get_cell"}, grid : CallGrids,
                         row : CallIndices, col : CallIndices]
       \/ callArgs \in [op : {"valid_cells"}, grid : CallGrids,
                         row : {0}, col : {0}]
    /\ callResult = "-"
    /\ pc = "call"
    /\ puzzle = <<>>
    /\ bt = Unbuilt
    /\ bf = Unbuilt
    /\ ri = 0
    /\ col_perm = <<>>
    /\ found = <<>>
    /\ btOutcome = Running
    /\ bfFound = <<>>
    /\ bfOutcome = Running
    /\ data = <<>>
    /\ loaded = "-"

\* grid.get_cell(row, col) returns or raises
GetCell ==
    /\ pc = "call"
    /\ callArgs.op = "get_cell"
    /\ callResult' = get_cell(callArgs.grid, callArgs.row, callArgs.col)
    /\ pc' = "returned"
    /\ UNCHANGED <<puzzle, bt, bf, ri, col_perm, found, btOutcome, bfFound,
                   bfOutcome, data, loaded, callArgs>>

\* grid.valid_cells() returns
ValidCells ==
    /\ pc = "call"
    /\ callArgs.op = "valid_cells"
    /\ callResult' = Value(valid_cells(callArgs.grid))
    /\ pc' = "returned"
    /\ UNCHANGED <<puzzle, bt, bf, ri, col_perm, found, btOutcome, bfFound,
                   bfOutcome, data, loaded, callArgs>>

CallNext ==
    \/ GetCell
    \/ ValidCells

CallSpec == CallInit /\ [][CallNext]_vars

(***************************************************************************)
(* C16: get_cell(r, c) raises IndexError whenever r < 0, r >= n_rows,      *)
(* c < 0 or c >= n_cols, and returns the cell of row r and column c        *)
(* otherwise.                                                              *)
(***************************************************************************)
C16_GetCellBounds ==
    (pc = "returned" /\ callArgs.op = "get_cell") =>
        IF \/ callArgs.row < 0
           \/ callArgs.row >= callArgs.grid.n_rows
           \/ callArgs.col < 0
           \/ callArgs.col >= callArgs.grid.n_cols
        THEN callResult = Raises("IndexError")
        ELSE callResult = Value(<<callArgs.row, callArgs.col>>)

(***************************************************************************)
(* C18: the blocking table marks TABLE as blocking and WINDOW, BED, PLANT  *)
(* and CARPET as not blocking; valid_cells() holds every cell whose        *)
(* objects are among WINDOW, BED, PLANT, CARPET and no cell with a TABLE.  *)
(***************************************************************************)
OpenTags == {"WINDOW", "BED", "PLANT", "CARPET"}

C18_BlockingTable ==
    (pc = "returned" /\ callArgs.op = "valid_cells") =>
        /\ blocks("TABLE")
        /\ \A o \in OpenTags : ~blocks(o)
        /\ \A rc \in all_cells(callArgs.grid) :
               /\ callArgs.grid.objs[rc] \subseteq OpenTags =>
                      rc \in callResult.value
               /\ "TABLE" \in callArgs.grid.objs[rc] =>
                      rc \notin callResult.value

(***************************************************************************)
(* C19: the above / below pairs the solver holds are those of the          *)
(* above_person / below_person clues; a row order goes to backtrack(0,     *)
(* frozenset()) iff row(p) < row(t) for every above pair and               *)
(* row(p) > row(t) for every below pair, and a rejected row order leaves   *)
(* col_perm and found as they were.                                        *)
(***************************************************************************)
\* the (person, target) pairs of the clues of one kind
PairsOf(clues, kind) ==
    {<<clues[i].p, clues[i].t>> : i \in {j \in 1 .. Len(clues) : clues[j].kind = kind}}

\* every pair constraint holds in the row order
RespectsPairs(above, below, row_order) ==
    LET row(p) == CHOOSE r \in 0 .. (Len(row_order) - 1) : row_order[r + 1] = p
    IN  /\ \A pt \in above : row(pt[1]) < row(pt[2])
        /\ \A pt \in below : row(pt[1]) > row(pt[2])

RowOrderStep ==
    (pc = "bt" /\ ri < Len(RowOrders)) =>
        /\ bt.above = PairsOf(puzzle.clues, "above_person")
        /\ bt.below = PairsOf(puzzle.clues, "below_person")
        /\ ri' = ri + 1
        /\ IF RespectsPairs(bt.above, bt.below, RowOrders[ri + 1])
           THEN LET st == backtrack(puzzle, bt.candidate_cols, RowOrders[ri + 1],
                                    0, {}, [found |-> found, col_perm |-> col_perm])
                IN  found' = st.found /\ col_perm' = st.col_perm
           ELSE UNCHANGED <<found, col_perm>>

C19_RowOrderPruning == [][RowOrderStep]_vars

\* the row-order loop has ended with solutions after rejecting a row order
\* that, left to backtrack, would have reached a leaf
C19_Witness ==
    /\ pc = "bt"
    /\ ri = Len(RowOrders)
    /\ Len(found) > 0
    /\ \E k \in 1 .. Len(RowOrders) :
           /\ ~RespectsPairs(bt.above, bt.below, RowOrders[k])
           /\ \E pl \in ValidPlacements(puzzle) : pl.row_order = RowOrders[k]

(***************************************************************************)
(* C20: in the calls backtrack makes on an accepted row order, the columns *)
(* tried by the call at row index i are exactly                            *)
(* candidate_cols[row_order[i]][i] minus the columns assigned to rows      *)
(* 0 .. i-1 on the branch, each tried once; when none is left the call     *)
(* makes no deeper call and no leaf is evaluated under its prefix; and     *)
(* the leaves of these calls, evaluated in order, give the step's found.   *)
(***************************************************************************)
\* d is a call made below the branch of c
Extends(d, c) ==
    /\ Len(d.prefix) > Len(c.prefix)
    /\ SubSeq(d.prefix, 1, Len(c.prefix)) = c.prefix

\* the columns the call c assigns to its row: the last column of its children
ColumnsTried(calls, c) ==
    {calls[k].prefix[c.row_idx + 1] :
        k \in {j \in 1 .. Len(calls) :
                  Extends(calls[j], c) /\ calls[j].row_idx = c.row_idx + 1}}

\* the columns assigned on a branch
ColumnsOf(prefix) ==
    {prefix[i] : i \in 1 .. Len(prefix)}

\* candidate_cols[person][i] minus the columns of the branch
ColumnsLeft(cc, row_order, c) ==
    LET person == row_order[c.row_idx + 1]
        cands == IF c.row_idx \in DOMAIN cc[person] THEN cc[person][c.row_idx] ELSE {}
    IN  cands \ ColumnsOf(c.prefix)

CallTree(n, cc, row_order, calls) ==
    /\ Len(calls) >= 1
    /\ calls[1] = [row_idx |-> 0, used_cols |-> {}, prefix |-> <<>>]
    /\ \A j, k \in 1 .. Len(calls) : calls[j].prefix = calls[k].prefix => j = k
    /\ \A k \in 1 .. Len(calls) :
          LET c == calls[k]
          IN  /\ c.row_idx \in 0 .. n
              /\ Len(c.prefix) = c.row_idx
              /\ c.used_cols = ColumnsOf(c.prefix)
              /\ c.row_idx > 0 =>
                     \E j \in 1 .. (k - 1) :
                         /\ calls[j].row_idx = c.row_idx - 1
                         /\ Extends(c, calls[j])
              /\ c.row_idx < n =>
                     /\ ColumnsTried(calls, c) = ColumnsLeft(cc, row_order, c)
                     /\ ColumnsLeft(cc, row_order, c) = {} =>
                            ~ \E j \in 1 .. Len(calls) : Extends(calls[j], c)

\* _try_solution on each leaf in turn
RECURSIVE TryLeaves(_, _, _, _, _)
TryLeaves(pz, row_order, leaves, k, fnd) ==
    IF k > Len(leaves)
    THEN fnd
    ELSE TryLeaves(pz, row_order, leaves, k + 1,
                   try_solution(pz, row_order, leaves[k], fnd))

BacktrackStep ==
    (pc = "bt" /\ ri < Len(RowOrders) /\ row_order_valid(bt, RowOrders[ri + 1])) =>
        LET row_order == RowOrders[ri + 1]
            calls == CallsOf(puzzle, bt.candidate_cols, row_order, col_perm).calls
        IN  /\ CallTree(Len(puzzle.people), bt.candidate_cols, row_order, calls)
            /\ found' = TryLeaves(puzzle, row_order, LeavesOf(puzzle, calls), 1, found)

C20_ColumnBacktracking == [][BacktrackStep]_vars

\* the calls of the row order just searched
LastCalls ==
    CallsOf(puzzle, bt.candidate_cols, RowOrders[ri], col_perm).calls

\* the row order just searched had a call that lost a candidate column to an
\* earlier row, a call left with no column before the last row, and a leaf
C20_Witness ==
    /\ pc = "bt"
    /\ ri >= 1
    /\ row_order_valid(bt, RowOrders[ri])
    /\ \E k \in 1 .. Len(LastCalls) :
           LET c == LastCalls[k]
           IN  /\ c.row_idx < Len(puzzle.people)
               /\ CandidateColsGet(bt.candidate_cols, RowOrders[ri][c.row_idx + 1],
                                   c.row_idx) \cap c.used_cols # {}
               /\ ColumnsTried(LastCalls, c) # {}
    /\ \E k \in 1 .. Len(LastCalls) :
           LET c == LastCalls[k]
           IN  /\ c.row_idx \in 1 .. (Len(puzzle.people) - 1)
               /\ ColumnsTried(LastCalls, c) = {}
    /\ \E k \in 1 .. Len(LastCalls) : LastCalls[k].row_idx = Len(puzzle.people)

(***************************************************************************)
(* C21: col_perm is one list written in place by every branch and every    *)
(* row order; at each leaf of the search of a row order, col_perm[i] is    *)
(* the column the branch chose at depth i, the columns are pairwise        *)
(* distinct and as a set they are used_cols; the placements evaluated are  *)
(* those of the leaves.                                                    *)
(***************************************************************************)
\* the call that made call k: the latest earlier call one level up
Parent(calls, k) ==
    CHOOSE j \in 1 .. (k - 1) :
        /\ calls[j].row_idx = calls[k].row_idx - 1
        /\ \A m \in (j + 1) .. (k - 1) : calls[m].row_idx # calls[k].row_idx - 1

\* the call at depth d on the branch of call k
RECURSIVE Ancestor(_, _, _)
Ancestor(calls, k, d) ==
    IF calls[k].row_idx = d THEN k ELSE Ancestor(calls, Parent(calls, k), d)

\* the columns the branch of call k added to used_cols at depth i
ChosenAt(calls, k, i) ==
    calls[Ancestor(calls, k, i + 1)].used_cols \ calls[Ancestor(calls, k, i)].used_cols

LeafIsolated(n, calls, k) ==
    LET leaf == calls[k]
    IN  /\ Len(leaf.prefix) = n
        /\ \A i \in 0 .. (n - 1) : ChosenAt(calls, k, i) = {leaf.prefix[i + 1]}
        /\ \A i, j \in 1 .. n : leaf.prefix[i] = leaf.prefix[j] => i = j
        /\ ColumnsOf(leaf.prefix) = leaf.used_cols

IsolationStep ==
    (pc = "bt" /\ ri < Len(RowOrders) /\ row_order_valid(bt, RowOrders[ri + 1])) =>
        LET row_order == RowOrders[ri + 1]
            n == Len(puzzle.people)
            traced == CallsOf(puzzle, bt.candidate_cols, row_order, col_perm)
            calls == traced.calls
        IN  /\ \A k \in 1 .. Len(calls) :
                  calls[k].row_idx = n => LeafIsolated(n, calls, k)
            /\ found' = TryLeaves(puzzle, row_order, LeavesOf(puzzle, calls), 1, found)
            /\ col_perm' = traced.col_perm

C21_BranchIsolation == [][IsolationStep]_vars

\* a second or later row order has been searched, and two of its leaves
\* share the call that made them while col_perm held other columns before
C21_Witness ==
    /\ pc = "bt"
    /\ ri >= 2
    /\ row_order_valid(bt, RowOrders[ri])
    /\ row_order_valid(bt, RowOrders[ri - 1])
    /\ \E j, k \in 1 .. Len(LastCalls) :
           /\ j < k
           /\ LastCalls[j].row_idx = Len(puzzle.people)
           /\ LastCalls[k].row_idx = Len(puzzle.people)
           /\ SubSeq(LastCalls[j].prefix, 1, Len(puzzle.people) - 1)
                  = SubSeq(LastCalls[k].prefix, 1, Len(puzzle.people) - 1)
           /\ LastCalls[j].prefix # LastCalls[k].prefix

(***************************************************************************)
(* C22: BacktrackingSolver.solve on any puzzle runs to _finalize: the      *)
(* row-order loop takes each of the N! permutations at most once, no call  *)
(* of backtrack has row_idx above N, and solve() is not left before        *)
(* _finalize.                                                              *)
(***************************************************************************)
RECURSIVE Factorial(_)
Factorial(n) == IF n = 0 THEN 1 ELSE n * Factorial(n - 1)

\* _finalize has returned or raised
Finalized ==
    btOutcome.kind \in {"NoSolutionError", "Solution", "MultipleSolutionsError"}

\* permutations(people) has N! entries, no two alike
RowOrdersOnce ==
    /\ Len(RowOrders) = Factorial(Len(puzzle.people))
    /\ \A j, k \in 1 .. Len(RowOrders) : RowOrders[j] = RowOrders[k] => j = k

\* no call of backtrack on the next row order has row_idx above N
DepthBounded ==
    (pc = "bt" /\ ri < Len(RowOrders)) =>
        LET calls == CallsOf(puzzle, bt.candidate_cols, RowOrders[ri + 1], col_perm).calls
        IN  \A k \in 1 .. Len(calls) : calls[k].row_idx \in 0 .. Len(puzzle.people)

\* the row-order loop moves to the next permutation or solve() is left
LoopAdvances ==
    pc = "bt" => \/ ri' = ri + 1 /\ pc' = "bt"
                 \/ ri' = ri /\ pc' = "done"

C22_Termination ==
    /\ [](loaded = "Puzzle" => RowOrdersOnce /\ DepthBounded)
    /\ [][loaded = "Puzzle" => LoopAdvances]_vars
    /\ [](loaded = "Puzzle" /\ pc = "done" => Finalized)

(***************************************************************************)
(* One clue called on one GameState, twice.  The objects the closure can   *)
(* reach are kept as a heap of attributes: the GameState's row_order,      *)
(* col_perm and _pos, the Grid it shares with the Puzzle, and the          *)
(* Puzzle's people, victim and clues.  A method changes the attributes     *)
(* its body assigns to or mutates and no other.                            *)
(***************************************************************************)
Fields == {"row_order", "col_perm", "pos", "grid", "people", "victim", "clues"}

\* a method that empties the list it filters
Assigns_Consuming(m) ==
    IF m \in {"people_in_room", "people_on_object"} THEN {"row_order"} ELSE {}

\* the attributes a method of GameState, Grid or clues.base assigns or
\* mutates; the lists the comprehensions and neighbors() build are new
\* objects, local to the call
Assigns(m) ==
    CASE m = "position" -> {}
      [] m = "cell_of" -> {}
      [] m = "room_of" -> {}
      [] m = "people_in_room" -> {}
      [] m = "people_on_object" -> {}
      [] m = "get_cell" -> {}
      [] m = "all_cells" -> {}
      [] m = "cells_with_object" -> {}
      [] m = "neighbors" -> {}
      [] m = "has_object" -> {}
      [] m = "is_wall" -> {}

\* the methods a method calls
Callees(m) ==
    CASE m = "cell_of" -> {"get_cell"}
      [] m = "room_of" -> {"cell_of"}
      [] m = "people_in_room" -> {"room_of"}
      [] m = "people_on_object" -> {"cell_of", "has_object"}
      [] m = "cells_with_object" -> {"all_cells", "has_object"}
      [] m = "is_wall" -> {"get_cell"}
      [] OTHER -> {}

\* the methods the closure of a clue calls
Methods(kind) ==
    CASE kind \in {"above_person", "below_person", "at_column"} -> {"position"}
      [] kind \in {"in_room", "with_person"} -> {"room_of"}
      [] kind \in {"alone_in_room", "alone_with_murderer", "only_with_person"} ->
             {"room_of", "people_in_room"}
      [] kind = "on_object" -> {"cell_of", "has_object"}
      [] kind \in {"only_on_object", "only_one_person_on"} -> {"people_on_object"}
      [] kind = "next_to_object" ->
             {"position", "neighbors", "has_object", "room_of"}
      [] kind \in {"in_corner", "not_next_to_wall"} ->
             {"position", "room_of", "is_wall"}
      [] kind \in {"same_column_as_object", "left_of"} ->
             {"position", "room_of", "cells_with_object"}

RECURSIVE Reached(_, _)
Reached(ms, depth) ==
    IF depth = 0
    THEN ms
    ELSE Reached(ms \cup UNION {Callees(m) : m \in ms}, depth - 1)

\* every attribute a call of the clue may write
Written(clue) ==
    UNION {Assigns(m) : m \in Reached(Methods(clue.kind), 3)}

\* GameState.__init__ and the Puzzle it is evaluated for
HeapOf(pz, state) ==
    [row_order |-> state.row_order, col_perm |-> state.col_perm,
     pos |-> [p \in SeqToSet(state.row_order) |-> position(state, p)],
     grid |-> state.grid,
     people |-> pz.people, victim |-> pz.victim, clues |-> pz.clues]

\* the heaps a write to the attributes W can leave
HeapsAfter(h, W) ==
    {[f \in Fields |-> IF f \in W /\ altered THEN <<>> ELSE h[f]] :
        altered \in BOOLEAN}

EvalInit ==
    /\ IsPuzzle(puzzle)
    /\ Len(puzzle.clues) = 1
    /\ \E state \in GridPlacements(puzzle) :
           /\ callArgs = HeapOf(puzzle, state)
           /\ data = HeapOf(puzzle, state)
    /\ callResult = <<>>
    /\ pc = "call"
    /\ loaded = "-"
    /\ bt = Unbuilt
    /\ bf = Unbuilt
    /\ ri = 0
    /\ col_perm = <<>>
    /\ found = <<>>
    /\ btOutcome = Running
    /\ bfFound = <<>>
    /\ bfOutcome = Running

\* clue(state) on the heap as it is: the value returned, the heap left
ClueCall ==
    /\ pc \in {"call", "once"}
    /\ LET clue == callArgs.clues[1]
           state == GameState(callArgs.row_order, callArgs.col_perm, callArgs.grid)
       IN  /\ callResult' = Append(callResult, EvalClue(clue, state))
           /\ callArgs' \in HeapsAfter(callArgs, Written(clue))
    /\ pc' = IF pc = "call" THEN "once" ELSE "twice"
    /\ UNCHANGED <<puzzle, bt, bf, ri, col_perm, found, btOutcome, bfFound,
                   bfOutcome, data, loaded>>

EvalNext == ClueCall

EvalSpec == EvalInit /\ [][EvalNext]_vars

OrderClues(P) ==
    {c \in ClueUniverse(P) :
        /\ c.kind \in {"at_column", "above_person", "with_person", "on_object"}
        /\ ~c.inv
        /\ c.obj \in {"-", "BED"}}

\* columns of the widest grid: two more than its rows
WideCols == 4

OrderGrids ==
    {build_grid(n, n, shape[1], shape[2]) :
        n \in 2 .. MaxRows, shape \in { <<"one", "bare">>, <<"hsplit", "bed_table">> }}
    \cup {build_grid(WideCols - 2, WideCols, "one", "bare")}

OrderInit ==
    /\ \E people \in PeopleLists, g \in OrderGrids :
           \E v \in SeqToSet(people) :
               \E c1, c2 \in OrderClues(SeqToSet(people)) :
                   puzzle = Puzzle(g, people, v, <<c1, c2>>)
    /\ pc = "bt_new"
    /\ bt = Unbuilt
    /\ bf = Unbuilt
    /\ ri = 0
    /\ col_perm = <<>>
    /\ found = <<>>
    /\ btOutcome = Running
    /\ bfFound = <<>>
    /\ bfOutcome = Running
    /\ data = <<>>
    /\ loaded = "-"
    /\ callArgs = <<>>
    /\ callResult = "-"

OrderSpec == OrderInit /\ [][Next]_vars

\* the same puzzle with its people and its clues listed in another order
Reorderings(pz) ==
    {Puzzle(pz.grid, pp, pz.victim, cc) :
        pp \in SeqToSet(permutations(pz.people)),
        cc \in SeqToSet(permutations(pz.clues))}

\* two outcomes of solve() that a caller cannot tell apart
SameOutcome(o1, o2) ==
    /\ o1.kind = o2.kind
    /\ o1.kind = "Solution" => o1.ret = o2.ret
    /\ o1.kind = "MultipleSolutionsError" =>
           SeqToSet(o1.solutions) = SeqToSet(o2.solutions)

(***************************************************************************)
(* C24: the outcome of solve(), in either solver, is the same for every    *)
(* order of the puzzle's clue list and of its people list.                 *)
(***************************************************************************)
C24_OrderIndependent ==
    pc = "done" =>
        \A pz \in Reorderings(puzzle) :
            /\ SameOutcome(BtSolve(pz), btOutcome)
            /\ SameOutcome(BfSolve(pz), bfOutcome)

(***************************************************************************)
(* C25: for every row order, Solver._col_perms yields exactly the          *)
(* permutations of the columns 0 .. N-1 that give each person of an        *)
(* at_column clue that clue's column, and nothing when two people are      *)
(* required in the same column.                                            *)
(***************************************************************************)
\* the (person, column) requirements of the at_column clues
ColumnRequirements(pz) ==
    {<<pz.clues[i].p, pz.clues[i].col>> :
        i \in {j \in 1 .. Len(pz.clues) : pz.clues[j].kind = "at_column"}}

\* the permutations of 0 .. N-1 that meet every requirement
ColumnPermutations(pz, row_order) ==
    LET n == Len(row_order)
        reqs == ColumnRequirements(pz)
    IN  IF \E a, b \in reqs : a[1] # b[1] /\ a[2] = b[2]
        THEN {}
        ELSE {cp \in Injections(n, 0 .. (n - 1)) :
                 \A rq \in reqs : cp[IndexOf(row_order, rq[1])] = rq[2]}

C25_ColumnPrefilter ==
    pc = "bf" =>
        \A k \in 1 .. Len(RowOrders) :
            SeqToSet(col_perms(bf.col_fixed, RowOrders[k]))
                = ColumnPermutations(puzzle, RowOrders[k])

(***************************************************************************)
(* C26: next_to_object(p, obj) returns true iff one of the cells directly  *)
(* above, below, left or right of p's cell is in the grid, holds obj and   *)
(* is in p's room (the negation when inverted), and                        *)
(* _has_neighbor_with_object says the same of p's cell.                    *)
(***************************************************************************)
\* the cell at offset (dr, dc) of rc is in the grid, holds obj, in rc's room
ObjectAt(grid, rc, dr, dc, obj) ==
    LET n == <<rc[1] + dr, rc[2] + dc>>
    IN  /\ n \in DOMAIN grid.objs
        /\ obj \in grid.objs[n]
        /\ grid.room[n] = grid.room[rc]

SameRoomAdjacent(grid, rc, obj) ==
    \/ ObjectAt(grid, rc, -1, 0, obj)
    \/ ObjectAt(grid, rc, 1, 0, obj)
    \/ ObjectAt(grid, rc, 0, -1, obj)
    \/ ObjectAt(grid, rc, 0, 1, obj)

C26_NextToObjectSameRoom ==
    (pc \in {"once", "twice"} /\ callArgs.clues[1].kind = "next_to_object") =>
        LET clue == callArgs.clues[1]
            rc == callArgs.pos[clue.p]
            adjacent == SameRoomAdjacent(callArgs.grid, rc, clue.obj)
        IN  /\ callResult[1] = (IF clue.inv THEN ~adjacent ELSE adjacent)
            /\ has_neighbor_with_object(rc, clue.obj, callArgs.grid) = adjacent

\* the clue returned false for a person with the object in the next cell of
\* another room and in a diagonal cell of the person's own room
C26_Witness ==
    /\ pc = "once"
    /\ callArgs.clues[1].kind = "next_to_object"
    /\ ~callArgs.clues[1].inv
    /\ callResult = <<FALSE>>
    /\ LET clue == callArgs.clues[1]
           rc == callArgs.pos[clue.p]
           grid == callArgs.grid
       IN  /\ \E n \in neighbors(grid, rc[1], rc[2]) :
                  clue.obj \in grid.objs[n] /\ grid.room[n] # grid.room[rc]
           /\ \E dr, dc \in {-1, 1} :
                  ObjectAt(grid, rc, dr, dc, clue.obj)

(***************************************************************************)
(* C27: same_column_as_object(p, obj, diff_room) returns true iff some     *)
(* cell holding obj has p's column and a room that differs from p's room   *)
(* when diff_room is true, equals it when diff_room is false; left_of is   *)
(* the same with p's column strictly less than the cell's column.          *)
(***************************************************************************)
\* some cell holding obj, related to p's column by columnTest, passes the gate
GatedObjectCell(grid, rc, obj, diff_room, columnTest(_, _)) ==
    \E cell \in DOMAIN grid.objs :
        /\ obj \in grid.objs[cell]
        /\ columnTest(rc[2], cell[2])
        /\ diff_room => grid.room[cell] # grid.room[rc]
        /\ ~diff_room => grid.room[cell] = grid.room[rc]

C27_ColumnClueRoomGate ==
    pc \in {"once", "twice"} =>
        LET clue == callArgs.clues[1]
            rc == callArgs.pos[clue.p]
            grid == callArgs.grid
        IN  /\ clue.kind = "same_column_as_object" =>
                   callResult[1] = GatedObjectCell(grid, rc, clue.obj, clue.inv,
                                                   LAMBDA pcol, ccol : pcol = ccol)
            /\ clue.kind = "left_of" =>
                   callResult[1] = GatedObjectCell(grid, rc, clue.obj, clue.inv,
                                                   LAMBDA pcol, ccol : pcol < ccol)

\* same_column_as_object with diff_room returned false for a person whose
\* column holds the object in the person's own room only
C27_Witness ==
    /\ pc = "once"
    /\ callArgs.clues[1].kind = "same_column_as_object"
    /\ callArgs.clues[1].inv
    /\ callResult = <<FALSE>>
    /\ LET clue == callArgs.clues[1]
           rc == callArgs.pos[clue.p]
       IN  \E cell \in DOMAIN callArgs.grid.objs :
               /\ clue.obj \in callArgs.grid.objs[cell]
               /\ cell[2] = rc[2]
               /\ cell # rc

(***************************************************************************)
(* C28: in one solve() neither solver records the same position map       *)
(* twice: the recorded solutions are as many as the satisfying placements  *)
(* of the puzzle, and a puzzle with one satisfying placement does not end  *)
(* in MultipleSolutionsError.                                              *)
(***************************************************************************)
\* no two entries of a found list hold the same position map
NoRepeats(fnd) ==
    \A j, k \in 1 .. Len(fnd) : fnd[j].positions = fnd[k].positions => j = k

C28_NoDuplicateSolutions ==
    pc = "done" =>
        /\ NoRepeats(found)
        /\ NoRepeats(bfFound)
        /\ Len(found) = Cardinality(SatisfyingPlacements(puzzle))
        /\ bfOutcome.kind # "IndexError" =>
               Len(bfFound) = Cardinality(SatisfyingPlacements(puzzle))
        /\ Cardinality(SatisfyingPlacements(puzzle)) = 1 =>
               /\ btOutcome.kind # "MultipleSolutionsError"
               /\ bfOutcome.kind # "MultipleSolutionsError"

(***************************************************************************)
(* Both solvers run on puzzles in which one person's name holds an         *)
(* apostrophe, so that repr() writes it in double quotes inside the clue   *)
(* names.                                                                  *)
(***************************************************************************)
QuotedPeopleLists ==
    {<<"O'N">> \o SubSeq(AllPeople, 2, n) : n \in 2 .. MaxPeople}

QuotedInit ==
    /\ \E people \in QuotedPeopleLists, g \in Grids :
           \E v \in SeqToSet(people) :
               \E cl \in ClueLists(ClueUniverse(SeqToSet(people)), MaxClues) :
                   puzzle = Puzzle(g, people, v, cl)
    /\ pc = "bt_new"
    /\ bt = Unbuilt
    /\ bf = Unbuilt
    /\ ri = 0
    /\ col_perm = <<>>
    /\ found = <<>>
    /\ btOutcome = Running
    /\ bfFound = <<>>
    /\ bfOutcome = Running
    /\ data = <<>>
    /\ loaded = "-"
    /\ callArgs = <<>>
    /\ callResult = "-"

QuotedSpec == QuotedInit /\ [][Next]_vars

(***************************************************************************)
(* C29: for a clue of kind at_column, in_room, on_object, not_on_object,   *)
(* next_to_object, not_next_to_object, in_corner or not_next_to_wall, the  *)
(* clue is true of its person in every placement that puts the person on   *)
(* a cell left in the person's candidates by the domain reduction.         *)
(***************************************************************************)
\* the clues whose filter is the clue's own test on the cell
IsExactClue(clue) ==
    \/ clue.kind \in {"at_column", "in_corner", "not_next_to_wall",
                      "on_object", "next_to_object"}
    \/ clue.kind = "in_room" /\ ~clue.inv

\* the cells self._candidate_cols holds for a person
CandidateCellsOf(cc, person) ==
    UNION {{<<r, c>> : c \in cc[person][r]} : r \in DOMAIN cc[person]}

C29_ExactFilters ==
    pc \notin {"bt_new"} =>
        \A i \in 1 .. Len(puzzle.clues) :
            IsExactClue(puzzle.clues[i]) =>
                \A cell \in CandidateCellsOf(bt.candidate_cols, puzzle.clues[i].p) :
                    \A pl \in GridPlacements(puzzle) :
                        position(pl, puzzle.clues[i].p) = cell =>
                            EvalClue(puzzle.clues[i], pl)


(***************************************************************************)
(* BacktrackingSolver(pz).solve() as a function of a puzzle whose clues    *)
(* may name somebody who is not in people: the row-order loop run to its   *)
(* end, or to the KeyError that leaves it.                                 *)
(***************************************************************************)
\* the "for row_order in row_iter" loop from row order i on;
\* st = [found, raised, col_perm]
RECURSIVE LdRowLoop(_, _, _, _, _)
LdRowLoop(pz, cc, orders, i, st) ==
    IF i > Len(orders) \/ st.raised
    THEN st
    ELSE LET chk == row_order_check(pz.clues, orders[i])
         IN  IF chk = "KeyError"
             THEN [st EXCEPT !.raised = TRUE]
             ELSE IF chk = "False"
                  THEN LdRowLoop(pz, cc, orders, i + 1, st)
                  ELSE LET calls == CallsOf(pz, cc, orders[i], st.col_perm)
                       IN  LdRowLoop(pz, cc, orders, i + 1,
                               LeafLoop(pz, orders[i], LeavesOf(pz, calls.calls), 1,
                                        [found |-> st.found, raised |-> FALSE,
                                         col_perm |-> calls.col_perm]))

LdSolve(pz) ==
    LET st == LdRowLoop(pz, candidate_cols(pz), permutations(pz.people), 1,
                        [found |-> <<>>, raised |-> FALSE,
                         col_perm |-> [i \in 1 .. Len(pz.people) |-> 0]])
    IN  IF st.raised
        THEN Outcome("KeyError", <<>>, <<>>)
        ELSE finalize(st.found)

\* alone_with_murderer(pz.victim)
MurderClue(pz) == Clue("alone_with_murderer", pz.victim, "-", "-", "-", 0, FALSE)

\* at most this many copies of the clue are added
MaxAdded == 2

\* the puzzle with the clue added k times at position at of its clue list
WithMurderClue(pz, at, k) ==
    Puzzle(pz.grid, pz.people, pz.victim,
           SubSeq(pz.clues, 1, at)
               \o [j \in 1 .. k |-> MurderClue(pz)]
               \o SubSeq(pz.clues, at + 1, Len(pz.clues)))

(***************************************************************************)
(* C30: adding alone_with_murderer(puzzle.victim) to the clue list, once   *)
(* or several times and wherever in the list, leaves the outcome of        *)
(* solve() as it was.                                                      *)
(***************************************************************************)
C30_MurderClueRedundant ==
    pc = "done" /\ loaded = "Puzzle" =>
        \A at \in 0 .. Len(puzzle.clues), k \in 1 .. MaxAdded :
            SameOutcome(LdSolve(WithMurderClue(puzzle, at, k)), btOutcome)

====
